---------------------------- MODULE Spec2Model ----------------------------
(***************************************************************************)
(* A model of SuperClaude's settings store (setup/core/settings_manager.py):*)
(* the deep-merge engine, the settings file with its timestamped backups,  *)
(* restore, and the hooks configuration validator.                         *)
(*                                                                         *)
(* JSON values are tagged records, one field each:                         *)
(*   [null |-> TRUE]  [bool |-> b]  [num |-> n]  [str |-> s]               *)
(*   [list |-> <<v1, ..., vn>>]     [map |-> [key |-> value]]              *)
(* Python's mutable objects (dict, list) live in a heap of objects so that *)
(* copying and aliasing are what the code makes them.                      *)
(***************************************************************************)
EXTENDS Integers, Sequences, FiniteSets, TLC

VARIABLES
    heap,        \* SpecMerge: the Python heap, a sequence of dict/list objects
    baseRef,     \* SpecMerge: cell of the `base` argument of _deep_merge
    overlayRef,  \* SpecMerge: cell of the `overlay` argument
    resultRef,   \* SpecMerge: cell of the value _deep_merge returned, or None
    base0,       \* SpecMerge: the value of `base` when the call started
    overlay0,    \* SpecMerge: the value of `overlay` when the call started
    mpc,         \* SpecMerge: "init" | "merged" | "mutated"
    fs,          \* the install directory: settings.json and backups/settings/
    clock,       \* datetime.now(), in whole seconds
    ticked,      \* the clock advanced since the last operation
    ops,         \* operations performed since Init
    last,        \* the last operation: its name, arguments, result, state before
    arg,         \* the argument of the call under test; None: callers choose
    writer,      \* SpecConc: the process inside save_settings, step by step
    session_stats, \* SpecInterceptor: MorphToolInterceptor.session_stats
    log,         \* SpecInterceptor: the lines of ~/.claude/morph_interception.log
    call,        \* SpecInterceptor: the last process_tool_call, with its outcome
    tree,        \* SpecFileOps: the directory tree the FileOperations work in
    backup_dir,  \* SpecFileOps: the copies FileOperations._backup_file made
    operations_log, \* SpecFileOps: FileOperations.operations_log
    returned     \* SpecFileOps: the last FileOperations call and what it returned

mergeVars == <<heap, baseRef, overlayRef, resultRef, base0, overlay0, mpc>>
storeVars == <<fs, clock, ticked, ops, last, arg, writer>>

interceptorVars == <<session_stats, log, call>>

fileOpsVars == <<tree, backup_dir, operations_log, returned>>

vars == <<mergeVars, storeVars, interceptorVars, fileOpsVars>>

None == [none |-> TRUE]

(***************************************************************************)
(* JSON values                                                             *)
(***************************************************************************)
IsMap(v) == "map" \in DOMAIN v
IsList(v) == "list" \in DOMAIN v
IsStr(v) == "str" \in DOMAIN v
IsRef(c) == "ref" \in DOMAIN c

Num(n) == [num |-> n]
Str(s) == [str |-> s]
List(l) == [list |-> l]
Map(m) == [map |-> m]
Bool(b) == [bool |-> b]
Null == [null |-> TRUE]
EmptyMap == Map(<<>>)

\* Every mapping from a subset of keys K to values of V.
PartialMaps(K, V) == UNION {[D -> V] : D \in SUBSET K}

\* e, evaluated once v is: Python evaluates an argument before the call it is
\* passed to, TLC when the callee first uses it.
After(v, e) == IF v = v THEN e ELSE e

\* x = v followed by Body(x): a local variable, assigned once and then read.
With(v, Body(_)) == Body(v)

RECURSIVE SetToSeq(_)
SetToSeq(S) ==
    IF S = {} THEN <<>>
    ELSE LET x == CHOOSE y \in S : TRUE IN <<x>> \o SetToSeq(S \ {x})

RECURSIVE SumSeq(_)
SumSeq(s) == IF s = <<>> THEN 0 ELSE Head(s) + SumSeq(Tail(s))

\* The size of a value: its keys, nested ones included, and its lists.
RECURSIVE Entries(_)
Entries(v) ==
    IF IsMap(v)
    THEN LET ks == SetToSeq(DOMAIN v.map)
         IN Len(ks) + SumSeq([i \in 1..Len(ks) |-> Entries(v.map[ks[i]])])
    ELSE IF IsList(v)
    THEN 1 + SumSeq([i \in 1..Len(v.list) |-> Entries(v.list[i])])
    ELSE 0

(***************************************************************************)
(* The heap: a sequence of objects; object i is a dict [map |-> key->cell] *)
(* or a list [list |-> <<cell>>]; a cell is a scalar value or [ref |-> i]. *)
(***************************************************************************)
Ref(i) == [ref |-> i]

\* Allocate the objects of value v in heap h: [h |-> heap, c |-> cell].
RECURSIVE Store(_, _), StoreKeys(_, _, _, _), StoreItems(_, _, _, _)
Store(h, v) ==
    IF IsMap(v) THEN StoreKeys(h, v.map, SetToSeq(DOMAIN v.map), <<>>)
    ELSE IF IsList(v) THEN StoreItems(h, v.list, 1, <<>>)
    ELSE [h |-> h, c |-> v]
StoreKeys(h, m, ks, acc) ==
    IF ks = <<>> THEN [h |-> Append(h, Map(acc)), c |-> Ref(Len(h) + 1)]
    ELSE LET s == Store(h, m[Head(ks)])
             acc2 == [k \in DOMAIN acc \cup {Head(ks)} |->
                        IF k = Head(ks) THEN s.c ELSE acc[k]]
         IN After(s, After(acc2, StoreKeys(s.h, m, Tail(ks), acc2)))
StoreItems(h, l, i, acc) ==
    IF i > Len(l) THEN [h |-> Append(h, List(acc)), c |-> Ref(Len(h) + 1)]
    ELSE LET s == Store(h, l[i])
             acc2 == Append(acc, s.c)
         IN After(s, After(acc2, StoreItems(s.h, l, i + 1, acc2)))

\* The value a cell denotes.
RECURSIVE Deref(_, _)
Deref(h, c) ==
    IF ~IsRef(c) THEN c
    ELSE LET o == h[c.ref]
         IN IF IsMap(o) THEN Map([k \in DOMAIN o.map |-> Deref(h, o.map[k])])
            ELSE List([i \in 1..Len(o.list) |-> Deref(h, o.list[i])])

\* The objects reachable from a cell.
RECURSIVE Reach(_, _)
Reach(h, c) ==
    IF ~IsRef(c) THEN {}
    ELSE LET o == h[c.ref]
         IN {c.ref} \cup
            (IF IsMap(o) THEN UNION {Reach(h, o.map[k]) : k \in DOMAIN o.map}
             ELSE UNION {Reach(h, o.list[i]) : i \in 1..Len(o.list)})

\* d[key] = cell, in place, on the dict object r.
SetItem(h, r, key, cell) ==
    [h EXCEPT ![r] = Map([k \in DOMAIN h[r].map \cup {key} |->
                            IF k = key THEN cell ELSE h[r].map[k]])]

\* Mutant of deepcopy: copy.copy(x), a fresh top object whose cells are shared.
deepcopy_shallow(h, c) ==
    IF ~IsRef(c) THEN [h |-> h, c |-> c]
    ELSE [h |-> Append(h, h[c.ref]), c |-> Ref(Len(h) + 1)]

\* copy.deepcopy(x): every object reachable from x gets a fresh copy, and the
\* copies refer to one another as the originals do.
deepcopy(h, c) ==
    IF ~IsRef(c) THEN [h |-> h, c |-> c]
    ELSE LET olds == SetToSeq(Reach(h, c))
             New(i) == Len(h) + (CHOOSE j \in 1..Len(olds) : olds[j] = i)
             Cell(x) == IF IsRef(x) THEN Ref(New(x.ref)) ELSE x
             Copy(o) == IF IsMap(o)
                        THEN Map([k \in DOMAIN o.map |-> Cell(o.map[k])])
                        ELSE List([j \in 1..Len(o.list) |-> Cell(o.list[j])])
         IN [h |-> h \o [j \in 1..Len(olds) |-> Copy(h[olds[j]])],
             c |-> Cell(c)]

IsDictCell(h, c) == IsRef(c) /\ IsMap(h[c.ref])

\* SettingsManager._deep_merge(base, overlay): [h |-> heap, c |-> result].
RECURSIVE deep_merge(_, _, _), deep_merge_loop(_, _, _, _)
\* Mutant of deep_merge_loop: result.update(overlay), no recursion into mappings.
deep_merge_loop_update(h, r, o, ks) ==
    IF ks = <<>> THEN h
    ELSE LET cp == deepcopy(h, h[o].map[Head(ks)])
         IN deep_merge_loop(SetItem(cp.h, r, Head(ks), cp.c), r, o, Tail(ks))
deep_merge(h, base, overlay) ==
    LET result == deepcopy(h, base)
    IN [h |-> deep_merge_loop(result.h, result.c.ref, overlay.ref,
                              SetToSeq(DOMAIN h[overlay.ref].map)),
        c |-> result.c]
deep_merge_loop(h, r, o, ks) ==
    IF ks = <<>> THEN h
    ELSE LET key == Head(ks)
             value == h[o].map[key]
         IN IF /\ key \in DOMAIN h[r].map
               /\ IsDictCell(h, h[r].map[key])
               /\ IsDictCell(h, value)
            THEN LET sub == deep_merge(h, h[r].map[key], value)
                 IN deep_merge_loop(SetItem(sub.h, r, key, sub.c), r, o, Tail(ks))
            ELSE LET cp == deepcopy(h, value)
                 IN deep_merge_loop(SetItem(cp.h, r, key, cp.c), r, o, Tail(ks))

\* _deep_merge on values: the arguments allocated, merged, the result read.
MergeValues(b, o) ==
    With(Store(<<>>, b), LAMBDA sb :
    With(Store(sb.h, o), LAMBDA so :
    With(deep_merge(so.h, sb.c, so.c), LAMBDA m :
        After(sb, After(so, After(m, Deref(m.h, m.c)))))))

(***************************************************************************)
(* JSON text. A file's content is a sequence of tokens: the punctuation of *)
(* JSON and, for each literal, the scalar it denotes. Indentation is left  *)
(* out: json.load skips it.                                                *)
(***************************************************************************)
P(s) == [p |-> s]
IsPunct(t) == "p" \in DOMAIN t

\* Every key the model uses, in the order sort_keys=True puts them.
KeyOrder == <<"PostToolUse", "PreToolUse", "a", "b", "badType", "category",
              "changed", "command", "components", "core", "edits", "errorHandler",
              "extra", "file_path", "files_count", "framework", "hooks",
              "installed_at", "matcher", "mcp", "new_string", "notification",
              "old_string", "path", "postToolUse", "preToolUse", "status", "stop",
              "subagentStop", "superclaude", "theme", "tool_input", "tool_name",
              "type", "v", "version", "x", "y">>

SortedKeys(S) == LET In(k) == k \in S IN SelectSeq(KeyOrder, In)

\* json.dump(value, f, indent=2, ensure_ascii=False, sort_keys=True)
RECURSIVE json_dump(_), dump_members(_, _), dump_elements(_, _)
json_dump(v) ==
    IF IsMap(v)
    THEN <<P("{")>> \o dump_members(v.map, SortedKeys(DOMAIN v.map)) \o <<P("}")>>
    ELSE IF IsList(v)
    THEN <<P("[")>> \o dump_elements(v.list, 1) \o <<P("]")>>
    ELSE <<v>>
dump_members(m, ks) ==
    IF ks = <<>> THEN <<>>
    ELSE <<Str(Head(ks)), P(":")>> \o json_dump(m[Head(ks)])
         \o (IF Tail(ks) = <<>> THEN <<>>
             ELSE <<P(",")>> \o dump_members(m, Tail(ks)))
dump_elements(l, i) ==
    IF i > Len(l) THEN <<>>
    ELSE json_dump(l[i])
         \o (IF i = Len(l) THEN <<>> ELSE <<P(",")>> \o dump_elements(l, i + 1))

ParseFail == [ok |-> FALSE, v |-> None, i |-> 0]

\* json.load(f): a recursive-descent parse; [ok, v] where ~ok is JSONDecodeError.
RECURSIVE ParseValue(_, _), ParseMembers(_, _, _), ParseElements(_, _, _)
ParseValue(t, i) ==
    IF i > Len(t) THEN ParseFail
    ELSE IF t[i] = P("{")
    THEN IF i + 1 <= Len(t) /\ t[i + 1] = P("}")
         THEN [ok |-> TRUE, v |-> EmptyMap, i |-> i + 2]
         ELSE ParseMembers(t, i + 1, <<>>)
    ELSE IF t[i] = P("[")
    THEN IF i + 1 <= Len(t) /\ t[i + 1] = P("]")
         THEN [ok |-> TRUE, v |-> List(<<>>), i |-> i + 2]
         ELSE ParseElements(t, i + 1, <<>>)
    ELSE IF IsPunct(t[i]) THEN ParseFail
    ELSE [ok |-> TRUE, v |-> t[i], i |-> i + 1]
ParseMembers(t, i, acc) ==
    IF i + 1 > Len(t) \/ ~IsStr(t[i]) \/ t[i + 1] # P(":") THEN ParseFail
    ELSE LET r == ParseValue(t, i + 2)
             key == t[i].str
             acc2 == [k \in DOMAIN acc \cup {key} |-> IF k = key THEN r.v ELSE acc[k]]
         IN IF ~r.ok \/ r.i > Len(t) THEN ParseFail
            ELSE IF t[r.i] = P(",") THEN ParseMembers(t, r.i + 1, acc2)
            ELSE IF t[r.i] = P("}") THEN [ok |-> TRUE, v |-> Map(acc2), i |-> r.i + 1]
            ELSE ParseFail
ParseElements(t, i, acc) ==
    LET r == ParseValue(t, i)
    IN IF ~r.ok \/ r.i > Len(t) THEN ParseFail
       ELSE IF t[r.i] = P(",") THEN ParseElements(t, r.i + 1, Append(acc, r.v))
       ELSE IF t[r.i] = P("]")
       THEN [ok |-> TRUE, v |-> List(Append(acc, r.v)), i |-> r.i + 1]
       ELSE ParseFail

json_load(bytes) ==
    With(ParseValue(bytes, 1), LAMBDA r :
        IF r.ok /\ r.i = Len(bytes) + 1 THEN [ok |-> TRUE, v |-> r.v]
        ELSE [ok |-> FALSE, v |-> None])

(***************************************************************************)
(* The install directory. fs.settings is settings.json; fs.backups maps    *)
(* the second stamped in a backup's name (settings_<stamp>.json) to the    *)
(* file; fs.stamp is the file system's time of the last write, which grows *)
(* with every write; fs.made is the history of every backup ever written.  *)
(***************************************************************************)
KeepCount == 10

NoFile == [exists |-> FALSE, bytes |-> <<>>, mtime |-> 0]
File(bytes, mtime) == [exists |-> TRUE, bytes |-> bytes, mtime |-> mtime]

EmptyDir == [settings |-> NoFile, backups |-> <<>>, stamp |-> 0, made |-> {},
             metadata |-> NoFile]

\* An operation's outcome: the directory after it and what it returned or raised.
Outcome(f, r) == [fs |-> f, result |-> r]

\* Mutant of SortsBefore: backup_files.sort(), oldest first.
SortsBefore_oldest_first(bk, a, b) ==
    \/ bk[a].mtime < bk[b].mtime
    \/ bk[a].mtime = bk[b].mtime /\ a < b

\* backup_files.sort(reverse=True): a sorts before b, on (st_mtime, path).
SortsBefore(bk, a, b) ==
    \/ bk[a].mtime > bk[b].mtime
    \/ bk[a].mtime = bk[b].mtime /\ a > b

\* SettingsManager._cleanup_old_backups(keep_count=10)
cleanup_old_backups(bk) ==
    LET Index(n) == Cardinality({m \in DOMAIN bk : SortsBefore(bk, m, n)})
    IN [n \in {x \in DOMAIN bk : Index(x) < KeepCount} |-> bk[n]]

\* shutil.copy2(src, dst) into the backups directory: content and mtime.
CopyInto(bk, name, file) ==
    [n \in DOMAIN bk \cup {name} |-> IF n = name THEN file ELSE bk[n]]

\* _create_settings_backup when it raises OSError: from backup_dir.mkdir
\* (n = -1, nothing is written) or from shutil.copy2 after n tokens of the
\* copy; _cleanup_old_backups is not reached.
create_settings_backup_fails(f, now, n) ==
    IF n < 0 THEN f
    ELSE [f EXCEPT !.backups = CopyInto(@, now, File(SubSeq(f.settings.bytes, 1, n),
                                                     f.stamp + 1)),
                   !.stamp = @ + 1]

\* Mutant of _create_settings_backup: the settings file is moved into the
\* backups directory (shutil.move), not copied.
create_settings_backup_moves(f, now) ==
    [f EXCEPT !.backups = cleanup_old_backups(CopyInto(f.backups, now, f.settings)),
              !.made = @ \cup {[name |-> now, mtime |-> f.settings.mtime]},
              !.settings = NoFile]

\* SettingsManager._create_settings_backup(), on an existing settings file
create_settings_backup(f, now) ==
    [f EXCEPT !.backups = cleanup_old_backups(CopyInto(f.backups, now, f.settings)),
              !.made = @ \cup {[name |-> now, mtime |-> f.settings.mtime]}]

\* open(settings_file, 'w'): the file is created or truncated.
open_w(f) ==
    [f EXCEPT !.settings = File(<<>>, f.stamp + 1), !.stamp = @ + 1]

\* f.write(bytes) on the file open_w opened: bytes go after what is written.
write(f, bytes) ==
    [f EXCEPT !.settings.bytes = @ \o bytes]

\* Mutant of WriteFile: the file is opened without truncation ('r+'), so what
\* the old content had beyond the new text stays.
WriteFile_no_truncate(f, bytes) ==
    LET old == f.settings.bytes
    IN [f EXCEPT !.settings = File(bytes \o SubSeq(old, Len(bytes) + 1, Len(old)),
                                   f.stamp + 1),
                 !.stamp = @ + 1]

\* with open(settings_file, 'w') as f: json.dump(...) writing bytes.
WriteFile(f, bytes) == write(open_w(f), bytes)

\* SettingsManager.save_settings(settings, create_backup)
save_settings(f, now, doc, cb) ==
    With(IF cb /\ f.settings.exists THEN create_settings_backup(f, now) ELSE f,
         LAMBDA f1 :
    With(json_dump(doc), LAMBDA text :
        After(f1, After(text, Outcome(WriteFile(f1, text), "None")))))

\* save_settings when the write fails after open(): the first n tokens are
\* in the file and IOError becomes ValueError.
save_settings_fails(f, now, doc, cb, n) ==
    LET f1 == IF cb /\ f.settings.exists THEN create_settings_backup(f, now) ELSE f
        text == json_dump(doc)
    IN After(f1, After(text, Outcome(WriteFile(f1, SubSeq(text, 1, n)), "ValueError")))

\* SettingsManager.load_settings(): [ok, v]; ~ok is ValueError.
load_settings(f) ==
    IF ~f.settings.exists THEN [ok |-> TRUE, v |-> EmptyMap]
    ELSE json_load(f.settings.bytes)

\* Mutant of update_settings: existing.update(modifications), the top level only.
update_settings_shallow(f, now, mods, cb) ==
    LET existing == load_settings(f)
        merged == Map([k \in DOMAIN existing.v.map \cup DOMAIN mods.map |->
                        IF k \in DOMAIN mods.map THEN mods.map[k] ELSE existing.v.map[k]])
    IN IF ~existing.ok THEN Outcome(f, "ValueError")
       ELSE After(merged, save_settings(f, now, merged, cb))

\* SettingsManager.update_settings(modifications, create_backup)
update_settings(f, now, mods, cb) ==
    With(load_settings(f), LAMBDA existing :
        IF ~existing.ok THEN Outcome(f, "ValueError")
        ELSE With(MergeValues(existing.v, mods), LAMBDA merged :
                 After(merged, save_settings(f, now, merged, cb))))

\* Mutant of restore_backup: the backup is copied without being validated.
restore_backup_unvalidated(f, now, name) ==
    IF name \notin DOMAIN f.backups THEN Outcome(f, "False")
    ELSE LET f1 == IF f.settings.exists THEN create_settings_backup(f, now) ELSE f
         IN IF name \notin DOMAIN f1.backups THEN Outcome(f1, "False")
            ELSE Outcome([f1 EXCEPT !.settings = f1.backups[name]], "True")

\* SettingsManager.restore_backup(backup_name)
restore_backup(f, now, name) ==
    IF name \notin DOMAIN f.backups THEN Outcome(f, "False")
    ELSE IF ~json_load(f.backups[name].bytes).ok THEN Outcome(f, "False")
    ELSE LET f1 == IF f.settings.exists THEN create_settings_backup(f, now) ELSE f
         IN IF name \notin DOMAIN f1.backups THEN Outcome(f1, "False")
            ELSE Outcome([f1 EXCEPT !.settings = f1.backups[name]], "True")

(***************************************************************************)
(* Hooks configuration                                                     *)
(***************************************************************************)
ValidHookTypes == {"preToolUse", "postToolUse", "errorHandler", "notification",
                   "stop", "subagentStop"}

\* Mutant of validate_hook: the types of matcher and command are not checked.
validate_hook_untyped(hook) ==
    IF ~IsMap(hook) THEN FALSE
    ELSE IF "matcher" \notin DOMAIN hook.map \/ "command" \notin DOMAIN hook.map THEN FALSE
    ELSE TRUE

\* The body of `for hook in hook_list` in _validate_hooks_config: FALSE is `return False`.
validate_hook(hook) ==
    IF ~IsMap(hook) THEN FALSE
    ELSE IF "matcher" \notin DOMAIN hook.map \/ "command" \notin DOMAIN hook.map THEN FALSE
    ELSE IF ~IsStr(hook.map["matcher"]) \/ ~IsStr(hook.map["command"]) THEN FALSE
    ELSE TRUE

RECURSIVE validate_hook_list(_, _)
validate_hook_list(l, i) ==
    IF i > Len(l) THEN TRUE
    ELSE IF ~validate_hook(l[i]) THEN FALSE
    ELSE validate_hook_list(l, i + 1)

\* SettingsManager._validate_hooks_config(hooks_config)
RECURSIVE validate_hooks_loop(_, _)
validate_hooks_loop(m, ks) ==
    IF ks = <<>> THEN TRUE
    ELSE IF Head(ks) \notin ValidHookTypes THEN FALSE
    ELSE IF ~IsList(m[Head(ks)]) THEN FALSE
    ELSE IF ~validate_hook_list(m[Head(ks)].list, 1) THEN FALSE
    ELSE validate_hooks_loop(m, Tail(ks))

validate_hooks_config(cfg) == validate_hooks_loop(cfg.map, SetToSeq(DOMAIN cfg.map))

\* Mutant of configure_hooks: the configuration is merged before it is validated.
configure_hooks_validates_late(f, now, cfg) ==
    IF cfg = EmptyMap THEN Outcome(f, "None")
    ELSE LET out == update_settings(f, now, Map([hooks |-> cfg]), TRUE)
         IN IF ~validate_hooks_config(cfg) THEN Outcome(out.fs, "ValueError") ELSE out

\* SettingsManager.configure_hooks(hooks_config)
configure_hooks(f, now, cfg) ==
    IF cfg = EmptyMap THEN Outcome(f, "None")
    ELSE IF ~validate_hooks_config(cfg) THEN Outcome(f, "ValueError")
    ELSE update_settings(f, now, Map([hooks |-> cfg]), TRUE)

(***************************************************************************)
(* Dict operations on values a method holds in local variables             *)
(***************************************************************************)
\* key in d, d a dict
HasKey(v, k) == IsMap(v) /\ k \in DOMAIN v.map
\* dict.get(key, default)
Get(v, k, default) == IF HasKey(v, k) THEN v.map[k] ELSE default
\* d[key] = x
PutKey(v, k, x) == Map([j \in DOMAIN v.map \cup {k} |-> IF j = k THEN x ELSE v.map[j]])
\* del d[key]
DelKey(v, k) == Map([j \in DOMAIN v.map \ {k} |-> v.map[j]])

(***************************************************************************)
(* The metadata file and the component registry                            *)
(***************************************************************************)
\* SettingsManager.load_metadata(): [ok, v]; ~ok is ValueError.
load_metadata(f) ==
    IF ~f.metadata.exists THEN [ok |-> TRUE, v |-> EmptyMap]
    ELSE json_load(f.metadata.bytes)

\* SettingsManager.save_metadata(metadata): no backup is taken.
save_metadata(f, doc) ==
    LET text == json_dump(doc)
    IN After(text, Outcome([f EXCEPT !.metadata = File(text, f.stamp + 1),
                                     !.stamp = @ + 1], "None"))

\* SettingsManager.add_component_registration(name, info); installed_at is
\* the time of the call.
add_component_registration(f, now, name, info) ==
    With(load_metadata(f), LAMBDA loaded :
    With(IF HasKey(loaded.v, "components") THEN loaded.v
         ELSE PutKey(loaded.v, "components", EmptyMap), LAMBDA m1 :
    With(PutKey(info, "installed_at", Num(now)), LAMBDA entry :
    With(PutKey(m1, "components", PutKey(m1.map["components"], name, entry)),
         LAMBDA m2 :
        IF ~loaded.ok THEN Outcome(f, "ValueError")
        ELSE After(m2, save_metadata(f, m2))))))

\* Mutant of remove_component_registration: the entry is deleted from the
\* loaded dict and the dict is not saved.
remove_component_registration_unsaved(f, name) ==
    LET loaded == load_metadata(f)
    IN IF ~loaded.ok THEN Outcome(f, "ValueError")
       ELSE IF HasKey(loaded.v, "components") /\ HasKey(loaded.v.map["components"], name)
       THEN Outcome(f, "True")
       ELSE Outcome(f, "False")

\* SettingsManager.remove_component_registration(name)
remove_component_registration(f, name) ==
    With(load_metadata(f), LAMBDA loaded :
        IF ~loaded.ok THEN Outcome(f, "ValueError")
        ELSE IF HasKey(loaded.v, "components")
                /\ HasKey(loaded.v.map["components"], name)
        THEN With(PutKey(loaded.v, "components",
                         DelKey(loaded.v.map["components"], name)), LAMBDA m2 :
                 After(m2, [save_metadata(f, m2) EXCEPT !.result = "True"]))
        ELSE Outcome(f, "False"))

\* SettingsManager.get_installed_components(): metadata.get("components", {})
get_installed_components(f) ==
    LET loaded == load_metadata(f)
    IN IF ~loaded.ok THEN [ok |-> FALSE, v |-> None]
       ELSE IF HasKey(loaded.v, "components")
       THEN [ok |-> TRUE, v |-> loaded.v.map["components"]]
       ELSE [ok |-> TRUE, v |-> EmptyMap]

\* SettingsManager.is_component_installed(name): "True", "False", "ValueError"
is_component_installed(f, name) ==
    With(get_installed_components(f), LAMBDA components :
        IF ~components.ok THEN "ValueError"
        ELSE IF HasKey(components.v, name) THEN "True" ELSE "False")

\* superclaude_fields
SuperclaudeFields == {"components", "framework", "superclaude", "mcp"}

\* {k: v for k, v in d.items() if k in keys}
Restrict(v, keys) == Map([k \in DOMAIN v.map \cap keys |-> v.map[k]])

\* Mutant of migrate_superclaude_data: the settings are cleaned of the keys
\* found by a list that lacks "mcp".
migrate_superclaude_data_keeps_mcp(f, now) ==
    LET loaded == load_settings(f)
        settings == loaded.v
        data_to_migrate == Restrict(settings, SuperclaudeFields)
        existing_metadata == load_metadata(f)
        merged_metadata == MergeValues(existing_metadata.v, data_to_migrate)
        saved == save_metadata(f, merged_metadata)
        clean_settings == Restrict(settings, DOMAIN settings.map \ (SuperclaudeFields \ {"mcp"}))
    IN IF ~loaded.ok THEN Outcome(f, "ValueError")
       ELSE IF data_to_migrate = EmptyMap THEN Outcome(f, "False")
       ELSE IF ~existing_metadata.ok THEN Outcome(f, "ValueError")
       ELSE After(merged_metadata,
                  [save_settings(saved.fs, now, clean_settings, TRUE)
                      EXCEPT !.result = "True"])

\* SettingsManager.migrate_superclaude_data()
migrate_superclaude_data(f, now) ==
    LET loaded == load_settings(f)
        settings == loaded.v
        data_to_migrate == Restrict(settings, SuperclaudeFields)
        existing_metadata == load_metadata(f)
        merged_metadata == MergeValues(existing_metadata.v, data_to_migrate)
        saved == save_metadata(f, merged_metadata)
        clean_settings == Restrict(settings, DOMAIN settings.map \ SuperclaudeFields)
    IN IF ~loaded.ok THEN Outcome(f, "ValueError")
       ELSE IF data_to_migrate = EmptyMap THEN Outcome(f, "False")
       ELSE IF ~existing_metadata.ok THEN Outcome(f, "ValueError")
       ELSE After(merged_metadata,
                  [save_settings(saved.fs, now, clean_settings, TRUE)
                      EXCEPT !.result = "True"])

(***************************************************************************)
(* Dot-path accessors. A path is key_path.split('.'), a sequence of keys.  *)
(***************************************************************************)
\* value[key], key a str: [exc, v], exc one of "none", "KeyError", "TypeError"
GetItem(value, key) ==
    IF ~IsMap(value) THEN [exc |-> "TypeError", v |-> None]
    ELSE IF key \notin DOMAIN value.map THEN [exc |-> "KeyError", v |-> None]
    ELSE [exc |-> "none", v |-> value.map[key]]

\* for key in keys: value = value[key]
RECURSIVE Walk(_, _)
Walk(value, keys) ==
    IF keys = <<>> THEN [exc |-> "none", v |-> value]
    ELSE LET item == GetItem(value, Head(keys))
         IN IF item.exc # "none" THEN item ELSE Walk(item.v, Tail(keys))

\* key in current, key a str: "True", "False" or "TypeError". A str holds
\* the key when the key is a substring of it, which it is when they are equal.
Contains(current, key) ==
    IF IsMap(current) THEN IF key \in DOMAIN current.map THEN "True" ELSE "False"
    ELSE IF IsList(current)
    THEN IF \E i \in 1..Len(current.list) : current.list[i] = Str(key)
         THEN "True" ELSE "False"
    ELSE IF IsStr(current) THEN IF current.str = key THEN "True" ELSE "False"
    ELSE "TypeError"

\* del current[keys[-1]], current being the dict the walk of keys[:-1] reached
\* inside settings: settings after it.
RECURSIVE DelPath(_, _)
DelPath(settings, keys) ==
    IF Len(keys) = 1 THEN DelKey(settings, Head(keys))
    ELSE PutKey(settings, Head(keys), DelPath(settings.map[Head(keys)], Tail(keys)))

Front(keys) == SubSeq(keys, 1, Len(keys) - 1)

\* Mutant of get_setting: except KeyError only.
get_setting_keyerror_only(f, keys, default) ==
    LET loaded == load_settings(f)
        walked == Walk(loaded.v, keys)
    IN IF ~loaded.ok THEN [result |-> "ValueError", v |-> None]
       ELSE IF walked.exc = "KeyError" THEN [result |-> "ok", v |-> default]
       ELSE IF walked.exc = "TypeError" THEN [result |-> "TypeError", v |-> None]
       ELSE [result |-> "ok", v |-> walked.v]

\* SettingsManager.get_setting(key_path, default): [result, v]
get_setting(f, keys, default) ==
    LET loaded == load_settings(f)
        walked == Walk(loaded.v, keys)
    IN IF ~loaded.ok THEN [result |-> "ValueError", v |-> None]
       ELSE IF walked.exc \in {"KeyError", "TypeError"} THEN [result |-> "ok", v |-> default]
       ELSE [result |-> "ok", v |-> walked.v]

\* {k1: {k2: ... {kn: value}}}, the modification set_setting builds
RECURSIVE Nested(_, _)
Nested(keys, value) ==
    IF Len(keys) = 1 THEN Map([k \in {Head(keys)} |-> value])
    ELSE Map([k \in {Head(keys)} |-> Nested(Tail(keys), value)])

\* SettingsManager.set_setting(key_path, value, create_backup)
set_setting(f, now, keys, value, cb) ==
    update_settings(f, now, Nested(keys, value), cb)

\* SettingsManager.remove_setting(key_path, create_backup)
remove_setting(f, now, keys, cb) ==
    LET loaded == load_settings(f)
        settings == loaded.v
        walked == Walk(settings, Front(keys))
        current == walked.v
        found == Contains(current, keys[Len(keys)])
        s2 == DelPath(settings, keys)
    IN IF ~loaded.ok THEN Outcome(f, "ValueError")
       ELSE IF walked.exc \in {"KeyError", "TypeError"} THEN Outcome(f, "False")
       ELSE IF found = "TypeError" THEN Outcome(f, "False")
       ELSE IF found = "False" THEN Outcome(f, "False")
       ELSE IF ~IsMap(current) THEN Outcome(f, "False")
       ELSE After(s2, [save_settings(f, now, s2, cb) EXCEPT !.result = "True"])

(***************************************************************************)
(* validate_hooks_paths. A command is a string; str.split() is the table   *)
(* of the commands the model uses. HookOsFiles and HookOsDirs are the      *)
(* regular files and the directories that exist.                           *)
(***************************************************************************)
CommandParts ==
    ("python3 /h/a.py" :> <<"python3", "/h/a.py">>) @@
    ("python3 /h/missing.py" :> <<"python3", "/h/missing.py">>) @@
    ("node /h/dir" :> <<"node", "/h/dir">>) @@
    ("/h/a.py --fast" :> <<"/h/a.py", "--fast">>) @@
    ("bash /h/a.py" :> <<"bash", "/h/a.py">>) @@
    ("python3" :> <<"python3">>) @@
    ("" :> <<>>) @@
    (" " :> <<>>)

HookOsFiles == {"/h/a.py"}

HookOsDirs == {"/h/dir"}

\* `not x` of a JSON value
Falsy(v) ==
    v \in {Null, Bool(FALSE), Num(0), Str(""), List(<<>>), EmptyMap}

PathError(kind, hook_type, i, path) ==
    [kind |-> kind, hook_type |-> hook_type, i |-> i, path |-> path]

\* Lines 476-486 for one hook with a command: [exc, errors]
check_script_path(hook_type, i, command) ==
    LET command_parts == CommandParts[command]
        script_path ==
            IF Len(command_parts) >= 2 /\ command_parts[1] \in {"python3", "python", "node"}
            THEN command_parts[2]
            ELSE command_parts[1]
    IN IF command_parts = <<>> THEN [exc |-> "IndexError", errors |-> <<>>]
       ELSE IF script_path \notin HookOsFiles \cup HookOsDirs
       THEN [exc |-> "none",
             errors |-> <<PathError("not found", hook_type, i, script_path)>>]
       ELSE IF script_path \notin HookOsFiles
       THEN [exc |-> "none",
             errors |-> <<PathError("not a file", hook_type, i, script_path)>>]
       ELSE [exc |-> "none", errors |-> <<>>]

\* The body of `for i, hook in enumerate(hook_list)`, lines 466-486
check_hook(hook_type, i, hook) ==
    LET command == Get(hook, "command", Str(""))
    IN IF ~IsMap(hook)
       THEN [exc |-> "none", errors |-> <<PathError("should be a dict", hook_type, i, "")>>]
       ELSE IF Falsy(command)
       THEN [exc |-> "none", errors |-> <<PathError("missing command", hook_type, i, "")>>]
       ELSE IF ~IsStr(command) THEN [exc |-> "AttributeError", errors |-> <<>>]
       ELSE check_script_path(hook_type, i, command.str)

\* `for i, hook in enumerate(hook_list)` from the i-th hook on
RECURSIVE check_hook_list(_, _, _, _)
check_hook_list(hook_type, l, i, errors) ==
    IF i > Len(l) THEN [exc |-> "none", errors |-> errors]
    ELSE LET r == check_hook(hook_type, i - 1, l[i])
         IN IF r.exc # "none" THEN [exc |-> r.exc, errors |-> errors]
            ELSE check_hook_list(hook_type, l, i + 1, errors \o r.errors)

\* `for hook_type, hook_list in hooks_config.items()`, in the order of the
\* file, which save_settings writes with sorted keys
RECURSIVE check_hook_types(_, _, _)
check_hook_types(m, ks, errors) ==
    IF ks = <<>> THEN [exc |-> "none", errors |-> errors]
    ELSE IF ~IsList(m[Head(ks)])
    THEN check_hook_types(m, Tail(ks),
                          Append(errors, PathError("should be a list", Head(ks), 0, "")))
    ELSE LET r == check_hook_list(Head(ks), m[Head(ks)].list, 1, errors)
         IN IF r.exc # "none" THEN r
            ELSE check_hook_types(m, Tail(ks), r.errors)

\* SettingsManager.validate_hooks_paths(): [exc, is_valid, errors]
validate_hooks_paths(f) ==
    LET got == get_setting(f, <<"hooks">>, EmptyMap)
        r == check_hook_types(got.v.map, SortedKeys(DOMAIN got.v.map), <<>>)
    IN IF got.result # "ok" THEN [exc |-> got.result, is_valid |-> FALSE, errors |-> <<>>]
       ELSE IF Falsy(got.v) THEN [exc |-> "none", is_valid |-> TRUE, errors |-> <<>>]
       ELSE IF ~IsMap(got.v)
       THEN [exc |-> "AttributeError", is_valid |-> FALSE, errors |-> <<>>]
       ELSE IF r.exc # "none" THEN [exc |-> r.exc, is_valid |-> FALSE, errors |-> <<>>]
       ELSE [exc |-> "none", is_valid |-> r.errors = <<>>, errors |-> r.errors]

(***************************************************************************)
(* Single hooks and the hooks component                                    *)
(***************************************************************************)
\* SettingsManager.add_hook(hook_type, matcher, command)
add_hook(f, now, hook_type, matcher, command) ==
    With(load_settings(f), LAMBDA loaded :
    With(IF HasKey(loaded.v, "hooks") THEN loaded.v
         ELSE PutKey(loaded.v, "hooks", EmptyMap), LAMBDA s1 :
    With(s1.map["hooks"], LAMBDA hooks1 :
    With(IF HasKey(hooks1, hook_type) THEN hooks1
         ELSE PutKey(hooks1, hook_type, List(<<>>)), LAMBDA hooks2 :
    With(Map([matcher |-> matcher, command |-> command]), LAMBDA hook_config :
    With(PutKey(hooks2, hook_type,
                List(Append(hooks2.map[hook_type].list, hook_config))),
         LAMBDA hooks3 :
    With(PutKey(s1, "hooks", hooks3), LAMBDA s2 :
        IF ~loaded.ok THEN Outcome(f, "ValueError")
        ELSE IF ~IsMap(hooks1) THEN Outcome(f, "TypeError")
        ELSE IF ~IsList(hooks2.map[hook_type]) THEN Outcome(f, "AttributeError")
        ELSE After(loaded, After(s2, save_settings(f, now, s2, TRUE))))))))))

\* SettingsManager.remove_hooks(hook_type); hook_type None removes them all.
remove_hooks(f, now, hook_type) ==
    LET loaded == load_settings(f)
        hooks == loaded.v.map["hooks"]
    IN IF ~loaded.ok THEN Outcome(f, "ValueError")
       ELSE IF ~HasKey(loaded.v, "hooks") THEN Outcome(f, "False")
       ELSE IF hook_type # None
       THEN IF ~IsMap(hooks) /\ ~IsList(hooks) /\ ~IsStr(hooks)
            THEN Outcome(f, "TypeError")
            ELSE IF HasKey(hooks, hook_type.str)
            THEN LET s2 == PutKey(loaded.v, "hooks", DelKey(hooks, hook_type.str))
                 IN After(s2, [save_settings(f, now, s2, TRUE) EXCEPT !.result = "True"])
            ELSE Outcome(f, "False")
       ELSE LET s2 == DelKey(loaded.v, "hooks")
            IN After(s2, [save_settings(f, now, s2, TRUE) EXCEPT !.result = "True"])

\* The files of HooksComponent.hook_files that configure a hook.
InterceptorFile == "morph_tool_interceptor.py"
MonitorFile == "morph_performance_monitor.py"
ErrorHandlerFile == "morph_error_handler.py"
HookFiles == {InterceptorFile, MonitorFile, ErrorHandlerFile}

CommandHook(script) ==
    Map([type |-> Str("command"), command |-> Str(script)])

\* HooksComponent.get_settings_modifications(), existing_hooks being the hook
\* files found in the hooks directory.
get_settings_modifications(existing_hooks) ==
    LET pre == IF InterceptorFile \in existing_hooks
               THEN [PreToolUse |-> List(<<Map([
                        matcher |-> Str("^(Read|Write|Edit|MultiEdit|LS|Glob)$"),
                        hooks |-> List(<<CommandHook(InterceptorFile)>>)])>>)]
               ELSE <<>>
        post == IF MonitorFile \in existing_hooks
                THEN [PostToolUse |-> List(<<Map([
                        matcher |-> Str(".*"),
                        hooks |-> List(<<CommandHook(MonitorFile)>>)])>>)]
                ELSE <<>>
        both == [k \in DOMAIN pre \cup DOMAIN post |->
                    IF k \in DOMAIN pre THEN pre[k] ELSE post[k]]
    IN IF existing_hooks = {} THEN EmptyMap
       ELSE Map([hooks |-> Map(both)])

\* HooksComponent.install(config), the hook files of `copied` having been
\* copied into the hooks directory (none: the placeholder install): the
\* registration, then the settings. "True" and "False" are what it returns.
hooks_install(f, now, copied) ==
    With(add_component_registration(f, now, "hooks",
             Map([version |-> Str("3.0.0"), category |-> Str("integration"),
                  status |-> Str(IF copied = {} THEN "placeholder" ELSE "active"),
                  files_count |-> Num(Cardinality(copied))])),
         LAMBDA reg :
    With(get_settings_modifications(copied), LAMBDA settings_mods :
        After(reg,
              IF reg.result # "None" THEN Outcome(reg.fs, "False")
              ELSE IF settings_mods = EmptyMap THEN Outcome(reg.fs, "True")
              ELSE With(update_settings(reg.fs, now, settings_mods, TRUE),
                        LAMBDA upd :
                            After(upd, IF upd.result # "None"
                                       THEN Outcome(upd.fs, "False")
                                       ELSE Outcome(upd.fs, "True"))))))

\* HooksComponent.uninstall(): the registration and the hooks section go;
\* an error on the way is logged and it returns True all the same.
hooks_uninstall(f, now) ==
    IF is_component_installed(f, "hooks") # "True" THEN Outcome(f, "True")
    ELSE With(remove_component_registration(f, "hooks"), LAMBDA unreg :
         With(load_settings(unreg.fs), LAMBDA loaded :
         With(DelKey(loaded.v, "hooks"), LAMBDA s2 :
            After(unreg, After(loaded,
            IF unreg.result = "ValueError" \/ ~loaded.ok THEN Outcome(unreg.fs, "True")
            ELSE IF ~HasKey(loaded.v, "hooks") THEN Outcome(unreg.fs, "True")
            ELSE After(s2, Outcome(save_settings(unreg.fs, now, s2, TRUE).fs,
                                   "True")))))))

(***************************************************************************)
(* The tool interceptor (SuperClaude/Hooks/morph_tool_interceptor.py).     *)
(* A tool input is a JSON value. The environment of a call, env, is        *)
(*   [environ, argv, api_key, mcp_list, log_ok]: the MORPH_* variables     *)
(* that are set, the morph flags on the command line, whether              *)
(* MORPH_API_KEY is set, whether `claude mcp list` succeeds and names the  *)
(* server, and whether the log file can be appended to.                    *)
(***************************************************************************)
\* Mutant of TOOL_MAPPING: LS is mapped to Glob, itself a mapped tool.
TOOL_MAPPING_chained ==
    [Read |-> "mcp__filesystem-with-morph__read_file",
     Write |-> "mcp__filesystem-with-morph__write_file",
     Edit |-> "mcp__filesystem-with-morph__edit_file",
     LS |-> "Glob",
     Glob |-> "mcp__filesystem-with-morph__search_files",
     MultiEdit |-> "mcp__filesystem-with-morph__edit_file"]

TOOL_MAPPING ==
    [Read |-> "mcp__filesystem-with-morph__read_file",
     Write |-> "mcp__filesystem-with-morph__write_file",
     Edit |-> "mcp__filesystem-with-morph__edit_file",
     LS |-> "mcp__filesystem-with-morph__list_directory",
     Glob |-> "mcp__filesystem-with-morph__search_files",
     MultiEdit |-> "mcp__filesystem-with-morph__edit_file"]

DirectoryTree == "mcp__filesystem-with-morph__directory_tree"

ListDirectory == "mcp__filesystem-with-morph__list_directory"

MORPH_TOOLS_WITH_FALLBACK == (DirectoryTree :> "safe_directory_tree")

AUTO_ACTIVATION_THRESHOLDS ==
    [filesystem_operations |-> 5, batch_edits |-> 3, directory_scans |-> 10]

\* The file system the interceptor looks at: regular files with their size
\* in bytes, directories with their immediate children, whether os.listdir
\* succeeds on them and whether os.stat does (it does not below a directory
\* without search permission: /locked has mode 0600).
OsFiles == ("/big" :> 1024 * 1024 + 1) @@ ("/edge" :> 1024 * 1024)

Pool ==
    <<"f01", "f02", "f03", "f04", "f05", "f06", "f07", "f08", "f09", "f10",
      "f11", "f12", "f13", "f14", "f15">>

Take(m, n) == {Pool[i] : i \in m..n}

OsDirs ==
    ("/many" :> [dirs |-> Take(1, 8), files |-> {}, listable |-> TRUE, stat |-> TRUE]) @@
    ("/few" :> [dirs |-> Take(1, 7), files |-> Take(8, 14), listable |-> TRUE,
                stat |-> TRUE]) @@
    ("/git" :> [dirs |-> {".git"}, files |-> {}, listable |-> TRUE, stat |-> TRUE]) @@
    ("/built" :> [dirs |-> {}, files |-> {"build"}, listable |-> TRUE, stat |-> TRUE]) @@
    ("/wide" :> [dirs |-> {}, files |-> Take(1, 15), listable |-> TRUE, stat |-> TRUE]) @@
    ("/locked" :> [dirs |-> {"sub"}, files |-> {}, listable |-> FALSE, stat |-> TRUE]) @@
    ("/locked/sub" :> [dirs |-> {}, files |-> {}, listable |-> FALSE, stat |-> FALSE])

\* len(x): [exc, n]; a value without a length raises TypeError
PyLen(x) ==
    IF IsList(x) THEN [exc |-> "none", n |-> Len(x.list)]
    ELSE IF IsMap(x) THEN [exc |-> "none", n |-> Cardinality(DOMAIN x.map)]
    ELSE [exc |-> "TypeError", n |-> 0]

\* MorphToolInterceptor.parse_flags(): the flags as a set
parse_flags(env) ==
    {"--morph" : v \in env.environ \cap {"MORPH_ENABLED"}} \cup
    {"--morph-only" : v \in env.environ \cap {"MORPH_ONLY"}} \cup
    {"--morph-fast" : v \in env.environ \cap {"MORPH_FAST"}} \cup
    {"--no-morph" : v \in env.environ \cap {"NO_MORPH"}} \cup
    (env.argv \cap {"--morph", "--morphllm", "--morph-only", "--morph-fast", "--no-morph"})

\* Mutant of is_batch_operation: more than batch_edits edits.
is_batch_operation_above(tool_input) ==
    LET n == PyLen(Get(tool_input, "edits", List(<<>>)))
    IN IF ~HasKey(tool_input, "edits") THEN "False"
       ELSE IF n.exc # "none" THEN n.exc
       ELSE IF n.n > AUTO_ACTIVATION_THRESHOLDS.batch_edits THEN "True" ELSE "False"

\* MorphToolInterceptor.is_batch_operation: "True", "False" or "TypeError"
is_batch_operation(tool_input) ==
    LET n == PyLen(Get(tool_input, "edits", List(<<>>)))
    IN IF ~HasKey(tool_input, "edits") THEN "False"
       ELSE IF n.exc # "none" THEN n.exc
       ELSE IF n.n >= AUTO_ACTIVATION_THRESHOLDS.batch_edits THEN "True" ELSE "False"

\* MorphToolInterceptor.is_large_directory_operation
is_large_directory_operation(tool_input) == "True"

\* MorphToolInterceptor.is_performance_critical_operation
is_performance_critical_operation(tool_name, tool_input) ==
    LET file_path == tool_input.map["file_path"].str
        n == PyLen(Get(tool_input, "edits", List(<<>>)))
    IN IF /\ tool_name \in {"Read", "Write", "Edit"}
          /\ HasKey(tool_input, "file_path")
          /\ file_path \in DOMAIN OsFiles
          /\ OsFiles[file_path] > 1024 * 1024
       THEN "True"
       ELSE IF tool_name = "MultiEdit"
       THEN IF n.exc # "none" THEN n.exc
            ELSE IF n.n > 1 THEN "True" ELSE "False"
       ELSE "False"

\* MorphToolInterceptor.should_auto_activate: "True", "False" or "TypeError"
should_auto_activate(stats, tool_name, tool_input, flags) ==
    LET batch == is_batch_operation(tool_input)
        critical == is_performance_critical_operation(tool_name, tool_input)
    IN IF tool_name \notin DOMAIN TOOL_MAPPING THEN "False"
       ELSE IF stats.total_operations >= AUTO_ACTIVATION_THRESHOLDS.filesystem_operations
       THEN "True"
       ELSE IF tool_name = "MultiEdit" /\ batch # "False" THEN batch
       ELSE IF tool_name = "LS" /\ is_large_directory_operation(tool_input) = "True"
       THEN "True"
       ELSE IF "--morph-fast" \in flags /\ critical # "False" THEN critical
       ELSE "False"

\* Mutant of should_intercept: --morph-only is looked at before --no-morph.
should_intercept_only_first(stats, tool_name, tool_input, flags) ==
    IF "--morph-only" \in flags
    THEN IF tool_name \in DOMAIN TOOL_MAPPING THEN "True" ELSE "False"
    ELSE IF "--no-morph" \in flags THEN "False"
    ELSE IF "--morph" \in flags \/ "--morphllm" \in flags
    THEN IF tool_name \in DOMAIN TOOL_MAPPING THEN "True" ELSE "False"
    ELSE should_auto_activate(stats, tool_name, tool_input, flags)

\* MorphToolInterceptor.should_intercept: "True", "False" or "TypeError"
should_intercept(stats, tool_name, tool_input, flags) ==
    IF "--no-morph" \in flags THEN "False"
    ELSE IF "--morph-only" \in flags
    THEN IF tool_name \in DOMAIN TOOL_MAPPING THEN "True" ELSE "False"
    ELSE IF "--morph" \in flags \/ "--morphllm" \in flags
    THEN IF tool_name \in DOMAIN TOOL_MAPPING THEN "True" ELSE "False"
    ELSE should_auto_activate(stats, tool_name, tool_input, flags)

\* Mutant of validate_morph_server: the MCP server list alone decides.
validate_morph_server_no_key(env) == env.mcp_list

\* MorphToolInterceptor.validate_morph_server
validate_morph_server(env) ==
    IF ~env.api_key THEN FALSE
    ELSE env.mcp_list

\* MorphToolInterceptor.map_multiedit_parameters
map_multiedit_parameters(tool_input) ==
    Map([file_path |-> Get(tool_input, "file_path", Str("")),
         edits |-> Get(tool_input, "edits", List(<<>>)),
         batch_mode |-> Bool(TRUE),
         atomic_operation |-> Bool(TRUE)])

\* MorphToolInterceptor.map_tool_parameters
map_tool_parameters(tool_name, tool_input) ==
    IF tool_name \in {"Read", "Write", "Edit", "LS", "Glob"} THEN tool_input
    ELSE IF tool_name = "MultiEdit" THEN map_multiedit_parameters(tool_input)
    ELSE tool_input

\* MorphToolInterceptor.create_morph_tool_call: its tool and input
create_morph_tool_call(tool_name, tool_input) ==
    [tool |-> IF tool_name \in DOMAIN TOOL_MAPPING THEN TOOL_MAPPING[tool_name]
              ELSE tool_name,
     input |-> map_tool_parameters(tool_name, tool_input)]

\* MorphToolInterceptor.create_fallback_response; the texts name the tool
create_fallback_response(tool_name, tool_input) ==
    Map([action |-> Str("allow"),
         reason |-> Str("MorphLLM unavailable, using native tool"),
         fallback_mode |-> Bool(TRUE),
         performance_note |-> Str("Performance may be reduced")])

\* MorphToolInterceptor.detect_token_overflow_risk
detect_token_overflow_risk(tool_name, tool_input) ==
    LET path == Get(tool_input, "path", Str("")).str
        d == OsDirs[path]
        items == d.dirs \cup d.files
        problematic_subdirs == {".git", "node_modules", "logs", "__pycache__",
                                ".cache", "build", "dist", ".venv", "venv"}
    IN IF tool_name # DirectoryTree THEN FALSE
       ELSE IF path \notin DOMAIN OsDirs \/ ~d.stat THEN FALSE
       ELSE IF ~d.listable THEN TRUE
       ELSE IF Cardinality(d.dirs) >= 8 THEN TRUE
       ELSE IF items \cap problematic_subdirs # {} THEN TRUE
       ELSE Cardinality(items) >= 15

\* MorphToolInterceptor.create_chunked_directory_sequence: its tool and input
create_chunked_directory_sequence(tool_input) ==
    [tool |-> ListDirectory,
     input |-> Map([path |-> Get(tool_input, "path", Str(""))])]

\* MorphToolInterceptor.should_use_safe_directory_tree
should_use_safe_directory_tree(tool_name, tool_input) ==
    IF tool_name \notin DOMAIN MORPH_TOOLS_WITH_FALLBACK THEN FALSE
    ELSE IF tool_name = DirectoryTree
    THEN detect_token_overflow_risk(tool_name, tool_input)
    ELSE FALSE

\* Mutant of log_interception: the log file is opened with "w".
log_interception_truncating(s, tool_name, action, env) ==
    IF ~env.log_ok THEN [ok |-> FALSE, s |-> s]
    ELSE [ok |-> TRUE,
          s |-> [s EXCEPT !.log = <<[tool_name |-> tool_name,
                                     action |-> action,
                                     session_stats |-> s.session_stats]>>]]

\* An interceptor with its log file: s = [session_stats, log].
\* MorphToolInterceptor.log_interception: [ok, s]; ~ok is OSError from
\* os.makedirs or open, with nothing appended.
log_interception(s, tool_name, action, env) ==
    IF ~env.log_ok THEN [ok |-> FALSE, s |-> s]
    ELSE [ok |-> TRUE,
          s |-> [s EXCEPT !.log = Append(@, [tool_name |-> tool_name,
                                             action |-> action,
                                             session_stats |-> s.session_stats])]]

Raised(s, exc, flags, intercept) ==
    [s |-> s, raised |-> exc, response |-> None, flags |-> flags,
     intercept |-> intercept]

Returned(s, response, flags, intercept) ==
    [s |-> s, raised |-> "none", response |-> response, flags |-> flags,
     intercept |-> intercept]

Incremented(s, counter) == [s EXCEPT !.session_stats[counter] = @ + 1]

\* The block decision of the directory tree safety check, lines 263-276
SafeResponse(tool_name, chunked_call) ==
    Map([action |-> Str("block"),
         exit_code |-> Num(2),
         reason |-> Str("Directory tree likely to exceed token limit"),
         alternative_tool |-> Str(chunked_call.tool),
         alternative_input |-> chunked_call.input,
         morph_metadata |-> Map([original_tool |-> Str(tool_name),
                                 safety_mode |-> Bool(TRUE),
                                 token_overflow_prevention |-> Bool(TRUE)])])

\* The block decision of an interception, lines 293-304
InterceptResponse(tool_name, morph_call) ==
    Map([action |-> Str("block"),
         exit_code |-> Num(2),
         reason |-> Str("Routing to MorphLLM for improved performance"),
         alternative_tool |-> Str(morph_call.tool),
         alternative_input |-> morph_call.input,
         morph_metadata |-> Map([original_tool |-> Str(tool_name),
                                 performance_expected |-> Bool(TRUE),
                                 fallback_available |-> Bool(TRUE)])])

\* process_tool_call, lines 256-276: the directory tree safety check fired
safe_intercept(s1, tool_name, tool_input, env, flags) ==
    LET logged == log_interception(s1, tool_name, "safe_intercept", env)
        chunked_call == create_chunked_directory_sequence(tool_input)
    IN IF ~logged.ok THEN Raised(s1, "OSError", flags, "none")
       ELSE Returned(Incremented(logged.s, "morph_operations"),
                     SafeResponse(tool_name, chunked_call), flags, "none")

\* process_tool_call, lines 279-309: the decision by flags and auto-activation
route(s1, tool_name, tool_input, env, flags) ==
    LET intercept == should_intercept(s1.session_stats, tool_name, tool_input, flags)
    IN IF intercept \notin {"True", "False"}
       THEN Raised(s1, intercept, flags, intercept)
       ELSE IF intercept = "True"
       THEN IF ~validate_morph_server(env)
            THEN LET logged == log_interception(s1, tool_name, "fallback", env)
                 IN IF ~logged.ok THEN Raised(s1, "OSError", flags, intercept)
                    ELSE Returned(Incremented(logged.s, "fallback_operations"),
                                  create_fallback_response(tool_name, tool_input),
                                  flags, intercept)
            ELSE LET morph_call == create_morph_tool_call(tool_name, tool_input)
                     logged == log_interception(s1, tool_name, "intercept", env)
                 IN IF ~logged.ok THEN Raised(s1, "OSError", flags, intercept)
                    ELSE Returned(Incremented(logged.s, "morph_operations"),
                                  InterceptResponse(tool_name, morph_call),
                                  flags, intercept)
       ELSE LET s2 == Incremented(s1, "native_operations")
                logged == log_interception(s2, tool_name, "allow", env)
            IN IF ~logged.ok THEN Raised(s2, "OSError", flags, intercept)
               ELSE Returned(logged.s, Map([action |-> Str("allow")]),
                             flags, intercept)

\* Mutant of process_tool_call: --no-morph is honoured before the directory
\* tree safety check.
process_tool_call_flags_first(s, tool_name, tool_input, env) ==
    LET s1 == Incremented(s, "total_operations")
        flags == parse_flags(env)
    IN IF "--no-morph" \in flags THEN route(s1, tool_name, tool_input, env, flags)
       ELSE IF should_use_safe_directory_tree(tool_name, tool_input)
       THEN safe_intercept(s1, tool_name, tool_input, env, flags)
       ELSE route(s1, tool_name, tool_input, env, flags)

\* MorphToolInterceptor.process_tool_call on the interceptor s:
\* [s, raised, response, flags, intercept], with the interceptor after the
\* call, the exception that left it ("none": it returned), the decision, the
\* parsed flags and what should_intercept returned ("none": not asked).
process_tool_call(s, tool_name, tool_input, env) ==
    LET s1 == Incremented(s, "total_operations")
        flags == parse_flags(env)
    IN IF should_use_safe_directory_tree(tool_name, tool_input)
       THEN safe_intercept(s1, tool_name, tool_input, env, flags)
       ELSE route(s1, tool_name, tool_input, env, flags)

\* MorphToolInterceptor.__init__: the counters of a new instance
NewStats ==
    [total_operations |-> 0, morph_operations |-> 0,
     native_operations |-> 0, fallback_operations |-> 0]

\* What one run of the hook process leaves: the documents printed on
\* standard output, the exit code, the exception main's handler caught
\* ("none": none), whether an exception left main uncaught, the interceptor
\* instance and the log file at exit, and what process_tool_call computed.
Exit(stdout, exit_code, caught, s, out) ==
    [stdout |-> stdout, exit_code |-> exit_code, caught |-> caught,
     crashed |-> FALSE, s |-> s, flags |-> out.flags, intercept |-> out.intercept]

\* main, lines 453-464: the handler of `except Exception`
fail_open(exc, s, out) ==
    Exit(<<Map([action |-> Str("allow"), error |-> Str(exc),
                fallback_mode |-> Bool(TRUE)])>>, 0, exc, s, out)

NotAsked == [flags |-> {}, intercept |-> "none"]

\* Mutant of main: no handler around the decision, an exception ends the
\* process with a traceback.
main_unguarded(logfile, argv1, env) ==
    LET parsed == json_load(argv1)
        s == [session_stats |-> NewStats, log |-> logfile]
        tool_name == Get(parsed.v, "tool_name", Str("")).str
        tool_input == Get(parsed.v, "tool_input", EmptyMap)
        out == process_tool_call(s, tool_name, tool_input, env)
        crash == [Exit(<<>>, 1, "none", s, NotAsked) EXCEPT !.crashed = TRUE]
    IN IF ~parsed.ok THEN crash
       ELSE IF ~IsMap(parsed.v) THEN crash
       ELSE IF out.raised # "none" THEN [crash EXCEPT !.s = out.s]
       ELSE Exit(<<out.response>>, Get(out.response, "exit_code", Num(0)).num,
                 "none", out.s, out)

\* main(), lines 426-464, run with sys.argv[1] = argv1 (JSON text) while the
\* log file holds logfile: json.loads, a new MorphToolInterceptor,
\* process_tool_call, print, sys.exit; every Exception is caught.
main(logfile, argv1, env) ==
    With(json_load(argv1), LAMBDA parsed :
    With([session_stats |-> NewStats, log |-> logfile], LAMBDA s :
        IF ~parsed.ok THEN fail_open("JSONDecodeError", s, NotAsked)
        ELSE IF ~IsMap(parsed.v) THEN fail_open("AttributeError", s, NotAsked)
        ELSE With(process_tool_call(s, Get(parsed.v, "tool_name", Str("")).str,
                                    Get(parsed.v, "tool_input", EmptyMap), env),
                  LAMBDA out :
            IF out.raised # "none" THEN fail_open(out.raised, out.s, out)
            ELSE Exit(<<out.response>>,
                      Get(out.response, "exit_code", Num(0)).num,
                      "none", out.s, out))))

(***************************************************************************)
(* Spec: the operations of the settings store on an install directory that *)
(* earlier runs left behind.                                               *)
(***************************************************************************)
MaxHistory == 2
MaxOps == 2
MaxOverflow == 2
MaxRetentionOps == 2

\* The document a caller saves: one that differs from every earlier content.
NewDoc(n) == Map([v |-> Num(n)])
SaveDocs(f) == IF arg = None THEN {NewDoc(f.stamp + 1)} ELSE {arg}
UpdateMods == {Map([theme |-> Str("dark")])}

GoodHook == Map([matcher |-> Str("^Read$"), command |-> Str("run.sh")])
NoCommandHook == Map([matcher |-> Str("^Read$")])
StoreHookCfgs ==
    {EmptyMap,
     Map([preToolUse |-> List(<<GoodHook>>)]),
     Map([badType |-> List(<<GoodHook>>)]),
     Map([preToolUse |-> List(<<GoodHook>>), stop |-> List(<<NoCommandHook>>)])}

\* The directory after k successive save_settings(doc, create_backup=True)
\* calls, one in each of the seconds 1..k.
RECURSIVE Saves(_, _)
Saves(f, k) ==
    IF f.stamp >= k THEN f
    ELSE Saves(save_settings(f, f.stamp + 1, NewDoc(f.stamp + 1), TRUE).fs, k)

History(k) == Saves(EmptyDir, k)

\* The same, the write of the last call having failed after open().
BrokenHistory(k) == save_settings_fails(History(k - 1), k, NewDoc(k), TRUE, 0).fs

\* The record kept of an operation: what was called with what, the directory
\* before it (pre), what it returned or raised, what load returned (loaded),
\* the writer's position when it ran (during), the operation before it with
\* the settings file that one found (prev), and whether every operation so far was a
\* save_settings(doc, create_backup=True).
NoDoc == None
Op(name, cb, doc, bname, result, loaded) ==
    [op |-> name, pre |-> fs, cb |-> cb, doc |-> doc, name |-> bname,
     result |-> result, loaded |-> loaded, during |-> writer,
     prev |-> [op |-> last.op, doc |-> last.doc, result |-> last.result,
               pre |-> last.pre.settings],
     onlySaves |-> last.onlySaves /\ name = "save_settings" /\ cb]

IdleWriter == [pc |-> "idle", doc |-> NoDoc, old |-> NoDoc, left |-> <<>>]

StoreInit(f, k, budget) ==
    /\ fs = f
    /\ clock = k
    /\ ticked = FALSE
    /\ ops = budget
    /\ last = [op |-> "none", pre |-> f, cb |-> FALSE, doc |-> NoDoc, name |-> 0,
               result |-> "None", loaded |-> NoDoc, during |-> IdleWriter,
               prev |-> [op |-> "none", doc |-> NoDoc, result |-> "None",
                         pre |-> NoFile],
               onlySaves |-> TRUE]
    /\ writer = IdleWriter

(***************************************************************************)
(* Scripts/utils/file_ops.py: FileOperations on a small directory tree.    *)
(* "/s" holds what the operations copy from and "/t" is where they write;  *)
(* both directories exist throughout.  A node is absent, a file with its   *)
(* content, a directory, or a symbolic link with the path it points to.    *)
(***************************************************************************)
SourcePaths == {"/s/f", "/s/d", "/s/d/x"}
TargetPaths == {"/t/a", "/t/d", "/t/d/x", "/t/l"}
TreePaths == SourcePaths \cup TargetPaths

ParentOf == [p \in TreePaths |->
    CASE p = "/s/d/x" -> "/s/d"
      [] p = "/t/d/x" -> "/t/d"
      [] p \in {"/s/f", "/s/d"} -> "/s"
      [] OTHER -> "/t"]

NameOf == [p \in TreePaths |->
    CASE p = "/s/f" -> "f"
      [] p = "/t/a" -> "a"
      [] p = "/t/l" -> "l"
      [] p \in {"/s/d", "/t/d"} -> "d"
      [] OTHER -> "x"]

Absent == [kind |-> "none"]
RegularFile(content) == [kind |-> "file", content |-> content]
Dir == [kind |-> "dir"]
Link(to) == [kind |-> "link", to |-> to]

\* What test_file_ops prepares before the operations run: a file and a
\* directory with a file in it; `existing` are targets already in place.
InitialTree(existing) == [p \in TreePaths |->
    CASE p = "/s/f" -> RegularFile("f")
      [] p = "/s/d" -> Dir
      [] p = "/s/d/x" -> RegularFile("x")
      [] p \in existing -> RegularFile("old")
      [] OTHER -> Absent]

NoTree == [p \in TreePaths |-> Absent]

\* Path.resolve(): a link is replaced by what it points to.  Links are made
\* by create_symlink only, which resolves the source first, so no link points
\* to a link.
resolve(t, p) == IF t[p].kind = "link" THEN t[p].to ELSE p

\* Path.exists(), Path.is_dir(): both follow links.  Path.is_symlink() does not.
exists(t, p) == t[resolve(t, p)].kind # "none"
is_dir(t, p) == t[resolve(t, p)].kind = "dir"
is_symlink(t, p) == t[p].kind = "link"

\* shutil.rmtree(p) on a directory: p and everything below it.
rmtree(t, p) ==
    [q \in TreePaths |-> IF q = p \/ ParentOf[q] = p THEN Absent ELSE t[q]]

\* shutil.copytree(src, dst): dst becomes a directory holding copies of what
\* src holds, name by name.
copytree(t, src, dst) ==
    [q \in TreePaths |->
        IF q = dst THEN Dir
        ELSE IF ParentOf[q] = dst
             THEN LET from == {c \in TreePaths :
                                  ParentOf[c] = src /\ NameOf[c] = NameOf[q]}
                  IN IF from = {} THEN Absent ELSE t[CHOOSE c \in from : TRUE]
        ELSE t[q]]

\* Path.parent.mkdir(parents=True, exist_ok=True): creates the parent when it
\* is missing, raises FileExistsError when it is not a directory.
mkdir_parent(t, p) ==
    LET parent == ParentOf[p]
    IN IF parent \notin TreePaths THEN [ok |-> TRUE, tree |-> t]
       ELSE IF ~exists(t, parent)
            THEN [ok |-> TRUE, tree |-> [t EXCEPT ![parent] = Dir]]
       ELSE [ok |-> is_dir(t, parent), tree |-> t]

\* The state of a FileOperations object and of the tree it works on.
FileOpsState(t, b, l) == [tree |-> t, backup_dir |-> b, operations_log |-> l]

\* _log_operation: one more entry; the timestamp and the error text are
\* left out, nothing reads them.
log_operation(s, operation, source, target, success) ==
    [s EXCEPT !.operations_log =
        Append(@, [operation |-> operation, source |-> source,
                   target |-> target, success |-> success])]

\* _backup_file: a copy under the name of the path, with the counter the
\* name-conflict loop arrives at (0: the plain name); a directory is copied
\* with what it holds.
backup_file(s, path) ==
    LET name == NameOf[path]
        counter == Cardinality({i \in 1..Len(s.backup_dir) :
                                   s.backup_dir[i].name = name})
        below == {c \in TreePaths : ParentOf[c] = resolve(s.tree, path)}
    IN [s EXCEPT !.backup_dir =
           Append(@, [name |-> name, counter |-> counter,
                      node |-> s.tree[resolve(s.tree, path)],
                      holds |-> IF is_dir(s.tree, path)
                                THEN {<<NameOf[c], s.tree[c]>> : c \in below}
                                ELSE {}])]

\* "if backup and target_path.exists(): self._backup_file(target_path)"
backup_existing(s, path, backup) ==
    IF backup /\ exists(s.tree, path) THEN backup_file(s, path) ELSE s

Returns(s, value) == [s |-> s, value |-> value]

\* write_file(path, content, backup), not in dry-run.  open(path, 'w') writes
\* through a link and raises on a directory or under a missing directory.
write_file(s, path, content, backup) ==
    LET s1 == backup_existing(s, path, backup)
        mk == mkdir_parent(s1.tree, path)
        dest == resolve(mk.tree, path)
        opens == /\ mk.ok
                 /\ ~is_dir(mk.tree, path)
                 /\ (ParentOf[dest] \in TreePaths => is_dir(mk.tree, ParentOf[dest]))
    IN IF opens
       THEN Returns(log_operation(
                [s1 EXCEPT !.tree = [mk.tree EXCEPT ![dest] = RegularFile(content)]],
                "write", "", path, TRUE), TRUE)
       ELSE Returns(log_operation([s1 EXCEPT !.tree = mk.tree],
                                  "write", "", path, FALSE), FALSE)

\* copy_file(source, target, backup), not in dry-run.  shutil.copy2 raises
\* when the source is a directory or source and target are the same file.
\* The targets passed here are never directories.
copy_file(s, source, target, backup) ==
    IF ~exists(s.tree, source)
    THEN Returns(log_operation(s, "copy", source, target, FALSE), FALSE)
    ELSE LET s1 == backup_existing(s, target, backup)
             mk == mkdir_parent(s1.tree, target)
             from == resolve(mk.tree, source)
             dest == resolve(mk.tree, target)
             copies == /\ mk.ok
                       /\ ~is_dir(mk.tree, source)
                       /\ from # dest
         IN IF copies
            THEN Returns(log_operation(
                     [s1 EXCEPT !.tree = [mk.tree EXCEPT ![dest] = mk.tree[from]]],
                     "copy", source, target, TRUE), TRUE)
            ELSE Returns(log_operation([s1 EXCEPT !.tree = mk.tree],
                                       "copy", source, target, FALSE), FALSE)

\* copy_directory(source, target, backup), not in dry-run: an existing target
\* is removed with shutil.rmtree, which raises on a file or a link.
copy_directory(s, source, target, backup) ==
    IF ~exists(s.tree, source) \/ ~is_dir(s.tree, source)
    THEN Returns(log_operation(s, "copy_dir", source, target, FALSE), FALSE)
    ELSE LET s1 == backup_existing(s, target, backup)
             there == exists(s1.tree, target)
             removes == s1.tree[target].kind = "dir"
             cleared == IF there THEN rmtree(s1.tree, target) ELSE s1.tree
         IN IF there /\ ~removes
            THEN Returns(log_operation(s1, "copy_dir", source, target, FALSE),
                         FALSE)
            ELSE Returns(log_operation(
                     [s1 EXCEPT !.tree = copytree(cleared, resolve(cleared, source),
                                                  target)],
                     "copy_dir", source, target, TRUE), TRUE)

\* create_symlink(source, target, backup), not in dry-run: the source is
\* resolved first and logged resolved; an existing target is unlinked, which
\* raises on a directory.
create_symlink(s, source, target, backup) ==
    LET source_path == resolve(s.tree, source)
    IN IF ~exists(s.tree, source_path)
       THEN Returns(log_operation(s, "symlink", source_path, target, FALSE), FALSE)
       ELSE LET s1 == backup_existing(s, target, backup)
                mk == mkdir_parent(s1.tree, target)
                there == exists(mk.tree, target) \/ is_symlink(mk.tree, target)
                links == mk.ok /\ (there => mk.tree[target].kind # "dir")
            IN IF links
               THEN Returns(log_operation(
                        [s1 EXCEPT !.tree =
                            [mk.tree EXCEPT ![target] = Link(source_path)]],
                        "symlink", source_path, target, TRUE), TRUE)
               ELSE Returns(log_operation([s1 EXCEPT !.tree = mk.tree],
                                          "symlink", source_path, target, FALSE),
                            FALSE)

\* One turn of the loop of rollback_operations, on one log entry: the target
\* is removed and counted when target_path.exists(); shutil.rmtree raises on
\* a link to a directory and on a file, and the except clause goes on to the
\* next entry without counting.
rollback_entry(t, entry) ==
    LET target == entry.target
        removed == [tree |-> [t EXCEPT ![target] = Absent], counted |-> 1]
        felled == [tree |-> rmtree(t, target), counted |-> 1]
        skipped == [tree |-> t, counted |-> 0]
    IN IF ~exists(t, target) THEN skipped
       ELSE IF entry.operation \in {"copy", "write", "symlink"}
            THEN IF is_dir(t, target)
                 THEN IF is_symlink(t, target) THEN skipped ELSE felled
                 ELSE removed
       ELSE IF entry.operation = "copy_dir"
            THEN IF t[target].kind = "dir" THEN felled ELSE skipped
       ELSE skipped

\* "for operation in reversed(self.operations_log)": entries i, i-1, .., 1.
RECURSIVE rollback_from(_, _, _, _)
rollback_from(t, l, i, success_count) ==
    IF i = 0 THEN [tree |-> t, success_count |-> success_count]
    ELSE LET r == rollback_entry(t, l[i])
         IN rollback_from(r.tree, l, i - 1, success_count + r.counted)

\* rollback_operations(), not in dry-run.
rollback_operations(s) ==
    LET r == rollback_from(s.tree, s.operations_log, Len(s.operations_log), 0)
    IN Returns([s EXCEPT !.tree = r.tree],
               r.success_count = Len(s.operations_log))

NoReturn == [op |-> "none", value |-> FALSE]

FileOpsIdle ==
    /\ tree = NoTree
    /\ backup_dir = <<>>
    /\ operations_log = <<>>
    /\ returned = NoReturn

NoCall ==
    [tool_name |-> "", tool_input |-> None, env |-> None, before |-> NewStats,
     logBefore |-> <<>>, flags |-> {}, intercept |-> "none", raised |-> "none",
     response |-> None]

InterceptorIdle ==
    /\ session_stats = NewStats
    /\ log = <<>>
    /\ call = NoCall

MergeIdle ==
    /\ heap = <<>> /\ baseRef = None /\ overlayRef = None /\ resultRef = None
    /\ base0 = EmptyMap /\ overlay0 = EmptyMap /\ mpc = "idle"

Init ==
    /\ MergeIdle
    /\ FileOpsIdle
    /\ InterceptorIdle
    /\ arg = None
    /\ \E k \in 0..MaxHistory :
        \/ StoreInit(History(k), k, MaxOps)
        \/ k > 0 /\ StoreInit(BrokenHistory(k), k, MaxOps)

Step(out, op) ==
    /\ ops > 0
    /\ fs' = out.fs
    /\ ops' = ops - 1
    /\ ticked' = FALSE
    /\ last' = op
    /\ UNCHANGED <<clock, arg, writer>>
    /\ UNCHANGED mergeVars
    /\ UNCHANGED fileOpsVars
    /\ UNCHANGED interceptorVars

\* A second passes.
Tick ==
    /\ ops > 0
    /\ ~ticked
    /\ clock' = clock + 1
    /\ ticked' = TRUE
    /\ UNCHANGED <<fs, ops, last, arg, writer>>
    /\ UNCHANGED mergeVars
    /\ UNCHANGED fileOpsVars
    /\ UNCHANGED interceptorVars

SaveSettings ==
    /\ ops > 0
    /\ \E doc \in SaveDocs(fs), cb \in BOOLEAN :
            \E out \in {save_settings(fs, clock, doc, cb)} :
               Step(out, Op("save_settings", cb, doc, 0, out.result, NoDoc))

SaveSettingsFails ==
    /\ ops > 0
    /\ \E doc \in SaveDocs(fs), cb \in BOOLEAN :
            \E n \in 0..(Len(json_dump(doc)) - 1) :
                \E out \in {save_settings_fails(fs, clock, doc, cb, n)} :
                   Step(out, Op("save_settings", cb, doc, 0, out.result, NoDoc))

UpdateSettings ==
    /\ ops > 0
    /\ \E mods \in UpdateMods, cb \in BOOLEAN :
            \E out \in {update_settings(fs, clock, mods, cb)} :
               Step(out, Op("update_settings", cb, mods, 0, out.result, NoDoc))

RestoreBackup ==
    /\ ops > 0
    /\ \E name \in DOMAIN fs.backups \cup {0} :
            \E out \in {restore_backup(fs, clock, name)} :
               Step(out, Op("restore_backup", FALSE, NoDoc, name, out.result, NoDoc))

ConfigureHooks ==
    /\ ops > 0
    /\ \E cfg \in (IF arg = None THEN StoreHookCfgs ELSE {arg}) :
            \E out \in {configure_hooks(fs, clock, cfg)} :
               Step(out, Op("configure_hooks", TRUE, cfg, 0, out.result, NoDoc))

LoadSettings ==
    LET r == load_settings(fs)
    IN Step(Outcome(fs, IF r.ok THEN "ok" ELSE "ValueError"),
            Op("load_settings", FALSE, NoDoc, 0,
               IF r.ok THEN "ok" ELSE "ValueError", r.v))

Next ==
    \/ Tick
    \/ SaveSettings
    \/ SaveSettingsFails
    \/ UpdateSettings
    \/ RestoreBackup
    \/ ConfigureHooks
    \/ LoadSettings

Spec == Init /\ [][Next]_vars

(***************************************************************************)
(* SpecHooks: the operations that write the hooks section of the settings. *)
(***************************************************************************)
HookTypeArgs == {"preToolUse", "stop", "badType"}

AddHook ==
    /\ ops > 0
    /\ \E t \in HookTypeArgs :
            \E out \in {add_hook(fs, clock, t, Str("^Read$"), Str("run.sh"))} :
               Step(out, Op("add_hook", TRUE, Str(t), 0, out.result, NoDoc))

RemoveHooks ==
    /\ ops > 0
    /\ \E t \in {None} \cup {Str(x) : x \in HookTypeArgs} :
            \E out \in {remove_hooks(fs, clock, t)} :
               Step(out, Op("remove_hooks", TRUE, t, 0, out.result, NoDoc))

HooksInstall ==
    /\ ops > 0
    /\ \E copied \in SUBSET HookFiles :
            \E out \in {hooks_install(fs, clock, copied)} :
               Step(out, Op("hooks_install", TRUE, NoDoc, Cardinality(copied),
                            out.result, NoDoc))

HooksUninstall ==
    /\ ops > 0
    /\ \E now \in {clock} :
            \E out \in {hooks_uninstall(fs, now)} :
               Step(out, Op("hooks_uninstall", TRUE, NoDoc, 0, out.result, NoDoc))

HooksInit ==
    /\ MergeIdle
    /\ FileOpsIdle
    /\ InterceptorIdle
    /\ arg = None
    /\ \E k \in 0..MaxHistory : StoreInit(History(k), k, 1)

HooksNext ==
    \/ Tick
    \/ ConfigureHooks
    \/ AddHook
    \/ RemoveHooks
    \/ HooksInstall
    \/ HooksUninstall

SpecHooks == HooksInit /\ [][HooksNext]_vars

(***************************************************************************)
(* SpecRetention: the same store, started with the backups directory at    *)
(* the retention limit.                                                    *)
(***************************************************************************)
RetentionInit ==
    /\ MergeIdle
    /\ FileOpsIdle
    /\ InterceptorIdle
    /\ arg = None
    /\ \E k \in KeepCount..(KeepCount + MaxOverflow) :
        StoreInit(History(k), k, MaxRetentionOps)

RetentionNext ==
    \/ Tick
    \/ SaveSettings
    \/ SaveSettingsFails
    \/ UpdateSettings
    \/ RestoreBackup

SpecRetention == RetentionInit /\ [][RetentionNext]_vars

(***************************************************************************)
(* SpecConc: one process runs save_settings statement by statement while   *)
(* another calls load_settings between any two of its steps. writer.pc is  *)
(* the writer's position: "backed_up" after lines 54-58, "open" inside the *)
(* with block, where json.dump reaches the file in any number of chunks.   *)
(***************************************************************************)
MaxReads == 2
MaxWrites == 2

ConcInit ==
    /\ MergeIdle
    /\ FileOpsIdle
    /\ InterceptorIdle
    /\ arg = None
    /\ \E k \in 1..MaxHistory : StoreInit(History(k), k, MaxReads)

\* save_settings, lines 54-58: the backup, with the document to write in hand.
WriterBegin ==
    /\ writer.pc = "idle"
    /\ fs.stamp < MaxHistory + MaxWrites
    /\ \E doc \in SaveDocs(fs), cb \in BOOLEAN :
        /\ fs' = IF cb /\ fs.settings.exists
                 THEN create_settings_backup(fs, clock) ELSE fs
        /\ writer' = [pc |-> "backed_up", doc |-> doc,
                      old |-> load_settings(fs).v, left |-> json_dump(doc)]
    /\ UNCHANGED <<clock, ticked, ops, last, arg>>
    /\ UNCHANGED mergeVars
    /\ UNCHANGED fileOpsVars
    /\ UNCHANGED interceptorVars

\* save_settings, line 62: open(self.settings_file, 'w')
WriterOpen ==
    /\ writer.pc = "backed_up"
    /\ fs' = open_w(fs)
    /\ writer' = [writer EXCEPT !.pc = "open"]
    /\ UNCHANGED <<clock, ticked, ops, last, arg>>
    /\ UNCHANGED mergeVars
    /\ UNCHANGED fileOpsVars
    /\ UNCHANGED interceptorVars

\* save_settings, line 63: the next chunk of json.dump's output reaches the file.
WriterWrite ==
    /\ writer.pc = "open"
    /\ \E n \in 1..Len(writer.left) :
        /\ fs' = write(fs, SubSeq(writer.left, 1, n))
        /\ writer' = [writer EXCEPT !.left = SubSeq(@, n + 1, Len(@))]
    /\ UNCHANGED <<clock, ticked, ops, last, arg>>
    /\ UNCHANGED mergeVars
    /\ UNCHANGED fileOpsVars
    /\ UNCHANGED interceptorVars

\* save_settings, the end of the with block: everything is written.
WriterClose ==
    /\ writer.pc = "open"
    /\ writer.left = <<>>
    /\ writer' = IdleWriter
    /\ UNCHANGED <<fs, clock, ticked, ops, last, arg>>
    /\ UNCHANGED mergeVars
    /\ UNCHANGED fileOpsVars
    /\ UNCHANGED interceptorVars

ConcNext ==
    \/ WriterBegin
    \/ WriterOpen
    \/ WriterWrite
    \/ WriterClose
    \/ LoadSettings

SpecConc == ConcInit /\ [][ConcNext]_vars

(***************************************************************************)
(* Claims about the settings store                                         *)
(***************************************************************************)
SameContent(a, b) == a.exists = b.exists /\ a.bytes = b.bytes

\* C3, as claimed: when save_settings fails with an I/O error while writing
\* the settings file, the file still holds exactly the content it had before
\* the call.
C3_FailedSaveKeepsFile ==
    (last.op = "save_settings" /\ last.result = "ValueError" /\ last.pre.settings.exists)
        => SameContent(fs.settings, last.pre.settings)

\* C4, as claimed: a process that loads the settings file while another is
\* executing save_settings on it gets the complete old document or the
\* complete new one, never an error from an empty or partly written file.
C4_ReaderSeesOldOrNew ==
    (last.op = "load_settings" /\ last.during.pc \in {"backed_up", "open"})
        => /\ last.result = "ok"
           /\ last.loaded \in {last.during.old, last.during.doc}

\* The names of the backups ever written, and those written and gone again.
MadeNames == {c.name : c \in fs.made}
Gone == {c \in fs.made : c.name \notin DOMAIN fs.backups
                            \/ fs.backups[c.name].mtime # c.mtime}

\* C5, as claimed: after any number of successive save_settings(doc, create_backup=True)
\* calls the backups directory holds at most 10 files, and they are the most
\* recent by modification time of all backups created: 10 of them once 10
\* were created, and none that is gone is more recent than one that is kept.
C5_RetentionKeepsTenMostRecent ==
    last.onlySaves =>
        /\ Cardinality(DOMAIN fs.backups) <= 10
        /\ Cardinality(MadeNames) >= 10 => Cardinality(DOMAIN fs.backups) = 10
        /\ \A c \in Gone : \A n \in DOMAIN fs.backups : c.mtime <= fs.backups[n].mtime

\* restore_backup was called with the name of no file, or of a file that
\* does not parse as JSON.
RestoreOfBadBackup ==
    /\ last.op = "restore_backup"
    /\ \/ last.name \notin DOMAIN last.pre.backups
       \/ ~json_load(last.pre.backups[last.name].bytes).ok

CompletedBackedUpSave ==
    /\ last.op \in {"save_settings", "update_settings"}
    /\ last.result = "None"
    /\ last.cb
    /\ last.pre.settings.exists

\* C7: after any sequence of save, update and restore operations, when
\* save_settings(doc, create_backup=True) completes on a settings file that
\* existed, the backups directory holds at the end of the call a backup
\* byte-identical to the settings file's content before the call.
C7_BackupOfOverwrittenVersionKept ==
    CompletedBackedUpSave =>
        \E n \in DOMAIN fs.backups : fs.backups[n].bytes = last.pre.settings.bytes

\* The save followed a restore of the oldest backup into a full directory:
\* the backup it took is the oldest file by mtime, and pruning removed one.
C7_Witness ==
    /\ CompletedBackedUpSave
    /\ last.prev.op = "restore_backup"
    /\ Cardinality(DOMAIN last.pre.backups) = 10
    /\ DOMAIN last.pre.backups \ DOMAIN fs.backups # {}
    /\ \A n \in DOMAIN fs.backups : fs.backups[n].mtime >= last.pre.settings.mtime

\* What the hooks schema asks of a configuration.
HooksConfigValid(cfg) ==
    \A k \in DOMAIN cfg.map :
        /\ k \in {"preToolUse", "postToolUse", "errorHandler", "notification",
                  "stop", "subagentStop"}
        /\ IsList(cfg.map[k])
        /\ \A i \in 1..Len(cfg.map[k].list) :
            LET e == cfg.map[k].list[i]
            IN /\ IsMap(e)
               /\ {"matcher", "command"} \subseteq DOMAIN e.map
               /\ IsStr(e.map["matcher"])
               /\ IsStr(e.map["command"])

RejectedConfigure ==
    /\ last.op = "configure_hooks"
    /\ last.doc # EmptyMap
    /\ ~HooksConfigValid(last.doc)

\* C10: configure_hooks(cfg) with a non-empty cfg that fails validation
\* raises a validation error and writes nothing: the settings file and the
\* backups directory are exactly as before the call.
C10_InvalidHooksRejectedUnwritten ==
    RejectedConfigure =>
        /\ last.result = "ValueError"
        /\ fs.settings = last.pre.settings
        /\ fs.backups = last.pre.backups

\* An invalid configuration was passed while a settings file that loads
\* existed: a merge would have been written.
C10_Witness ==
    /\ RejectedConfigure
    /\ last.pre.settings.exists
    /\ json_load(last.pre.settings.bytes).ok

\* C11, as claimed: in every state reached through configure_hooks,
\* add_hook, remove_hooks and the hooks component's install and uninstall,
\* every key under the settings document's hooks mapping is one of the six
\* hook-type names and every entry of each sequence is a mapping with a
\* string matcher and a string command.
C11_HooksSectionKeepsSchema ==
    LET r == load_settings(fs)
    IN (r.ok /\ HasKey(r.v, "hooks")) =>
        /\ IsMap(r.v.map["hooks"])
        /\ HooksConfigValid(r.v.map["hooks"])

(***************************************************************************)
(* SpecMerge: _deep_merge applied to every pair of bounded mappings, then  *)
(* one in-place change made somewhere in the structure it returned.        *)
(***************************************************************************)
MaxEntries == 3

MergeKeys == {"a", "b"}
Leaves == {Num(1), Num(2), List(<<Num(1)>>)}
Maps1 == {Map(m) : m \in PartialMaps(MergeKeys, Leaves)}
Maps2 == {v \in {Map(m) : m \in PartialMaps(MergeKeys, Leaves \cup Maps1)} :
            Entries(v) <= MaxEntries}
Maps3 == {v \in {Map(m) : m \in PartialMaps(MergeKeys, Leaves \cup Maps2)} :
            Entries(v) <= MaxEntries}
TestMaps == Maps3

MergeInit ==
    /\ InterceptorIdle
    /\ FileOpsIdle
    /\ \E b \in TestMaps, o \in TestMaps :
        LET sb == Store(<<>>, b)
            so == Store(sb.h, o)
        IN /\ heap = so.h
           /\ baseRef = sb.c
           /\ overlayRef = so.c
           /\ resultRef = None
           /\ base0 = b
           /\ overlay0 = o
           /\ mpc = "init"
    /\ StoreInit(EmptyDir, 0, 0)
    /\ arg = None

\* result = self._deep_merge(base, overlay)
CallDeepMerge ==
    /\ mpc = "init"
    /\ LET m == deep_merge(heap, baseRef, overlayRef)
       IN heap' = m.h /\ resultRef' = m.c
    /\ mpc' = "merged"
    /\ UNCHANGED <<baseRef, overlayRef, base0, overlay0>>
    /\ UNCHANGED storeVars
    /\ UNCHANGED fileOpsVars
    /\ UNCHANGED interceptorVars

\* The caller changes the returned structure in place: d["changed"] = 0 on a
\* dict of it, l.append(0) on a list of it.
MutateResult ==
    /\ mpc = "merged"
    /\ \E i \in Reach(heap, resultRef) :
        heap' = IF IsMap(heap[i]) THEN SetItem(heap, i, "changed", Num(0))
                ELSE [heap EXCEPT ![i] = List(Append(heap[i].list, Num(0)))]
    /\ mpc' = "mutated"
    /\ UNCHANGED <<baseRef, overlayRef, resultRef, base0, overlay0>>
    /\ UNCHANGED storeVars
    /\ UNCHANGED fileOpsVars
    /\ UNCHANGED interceptorVars

MergeNext == CallDeepMerge \/ MutateResult

SpecMerge == MergeInit /\ [][MergeNext]_vars

(***************************************************************************)
(* Claims about _deep_merge                                                *)
(***************************************************************************)
\* r is what the merge contract prescribes for base b and overlay o.
RECURSIVE IsMergeOf(_, _, _)
IsMergeOf(r, b, o) ==
    /\ IsMap(r)
    /\ DOMAIN r.map = DOMAIN b.map \cup DOMAIN o.map
    /\ \A k \in DOMAIN o.map :
        IF k \in DOMAIN b.map /\ IsMap(b.map[k]) /\ IsMap(o.map[k])
        THEN IsMergeOf(r.map[k], b.map[k], o.map[k])
        ELSE r.map[k] = o.map[k]
    /\ \A k \in DOMAIN b.map \ DOMAIN o.map : r.map[k] = b.map[k]

Merged == mpc = "merged"
ResultValue == Deref(heap, resultRef)

\* C1: the mapping _deep_merge returns has, for every key of overlay, the
\* recursive merge of the two values when the key is in base and both values
\* are mappings, and the overlay value otherwise; every key of base absent
\* from overlay keeps its base value. So merge(a, {}) = a, merge({}, b) = b,
\* and an overlay scalar wins at its path.
C1_DeepMergeContract ==
    Merged =>
        /\ IsMergeOf(ResultValue, base0, overlay0)
        /\ (overlay0 = EmptyMap => ResultValue = base0)
        /\ (base0 = EmptyMap => ResultValue = overlay0)
        /\ \A k \in DOMAIN overlay0.map :
            ~IsMap(overlay0.map[k]) => ResultValue.map[k] = overlay0.map[k]

\* The recursive case of C1 has happened: a key whose base and overlay values
\* are both non-empty mappings with different keys, merged two levels deep.
C1_Witness ==
    /\ Merged
    /\ \E k \in DOMAIN base0.map \cap DOMAIN overlay0.map :
        /\ IsMap(base0.map[k]) /\ IsMap(overlay0.map[k])
        /\ DOMAIN base0.map[k].map # {}
        /\ DOMAIN overlay0.map[k].map \ DOMAIN base0.map[k].map # {}
        /\ DOMAIN base0.map[k].map \ DOMAIN overlay0.map[k].map # {}

\* C2: _deep_merge never mutates base or overlay, and what it returns shares
\* no object with either: a later in-place change to the result changes
\* neither argument.
C2_DeepMergeNonDestructive ==
    /\ Deref(heap, baseRef) = base0
    /\ Deref(heap, overlayRef) = overlay0
    /\ resultRef # None =>
        Reach(heap, resultRef) \cap
            (Reach(heap, baseRef) \cup Reach(heap, overlayRef)) = {}

\* The result was changed in place after a merge that had nested mutable
\* values to copy from both arguments.
C2_Witness ==
    /\ mpc = "mutated"
    /\ ResultValue # Deref(heap, baseRef)
    /\ \E k \in DOMAIN base0.map \ DOMAIN overlay0.map : IsMap(base0.map[k])
    /\ \E k \in DOMAIN overlay0.map : IsList(overlay0.map[k]) \/ IsMap(overlay0.map[k])

(***************************************************************************)
(* SpecRoundTrip: a document is saved over whatever earlier calls left in  *)
(* the settings file, and loaded.                                          *)
(***************************************************************************)
LongDoc == Map([a |-> List(<<Num(1), Num(2)>>), b |-> Map([a |-> Str("x")]),
                theme |-> Str("dark")])

RoundTripDocs ==
    TestMaps \cup
    {Map([a |-> Str("x"), b |-> Bool(TRUE)]),
     Map([a |-> Null, b |-> List(<<>>)]),
     Map([hooks |-> Map([preToolUse |-> List(<<GoodHook>>)]), theme |-> Str("dark")]),
     Map([a |-> List(<<Map([b |-> Num(1)]), List(<<Str("a"), Bool(FALSE)>>)>>)])}

\* What the settings file holds before: nothing, a document, the empty file
\* a failed save left, a longer document, the start of a longer document.
PriorDirs ==
    {EmptyDir, History(1), BrokenHistory(1),
     save_settings(EmptyDir, 1, LongDoc, TRUE).fs,
     save_settings_fails(EmptyDir, 1, LongDoc, TRUE, 3).fs}

RoundTripInit ==
    /\ MergeIdle
    /\ FileOpsIdle
    /\ InterceptorIdle
    /\ arg \in RoundTripDocs
    /\ \E f \in PriorDirs : StoreInit(f, 1, MaxOps)

RoundTripNext ==
    \/ SaveSettings
    \/ LoadSettings

SpecRoundTrip == RoundTripInit /\ [][RoundTripNext]_vars

LoadAfterSave ==
    /\ last.op = "load_settings"
    /\ last.prev.op = "save_settings"
    /\ last.prev.result = "None"

\* C8: for every mapping doc of string keys to JSON values, save_settings(doc)
\* followed by load_settings() returns a mapping equal to doc, whatever the
\* settings file held before the save.
C8_SaveLoadRoundTrip ==
    LoadAfterSave => last.result = "ok" /\ last.loaded = last.prev.doc

\* The save replaced a file whose text was longer than the document's, and
\* the document has a nested mapping and a sequence.
C8_Witness ==
    /\ LoadAfterSave
    /\ last.prev.pre.exists
    /\ Len(last.prev.pre.bytes) > Len(json_dump(last.prev.doc))
    /\ \E k \in DOMAIN last.loaded.map : IsMap(last.loaded.map[k])
    /\ \E k \in DOMAIN last.loaded.map : IsList(last.loaded.map[k])

(***************************************************************************)
(* SpecValidate: _validate_hooks_config applied to every bounded hooks     *)
(* configuration.                                                          *)
(***************************************************************************)
MaxHooks == 2

NoMatcherHook == Map([command |-> Str("run.sh")])
NumMatcherHook == Map([matcher |-> Num(1), command |-> Str("run.sh")])
NumCommandHook == Map([matcher |-> Str("^Read$"), command |-> Num(1)])
ExtraKeyHook == Map([matcher |-> Str("^Read$"), command |-> Str("run.sh"),
                     extra |-> Num(1)])

HookEntries == {GoodHook, NoCommandHook, NoMatcherHook, NumMatcherHook,
                NumCommandHook, ExtraKeyHook, Str("run.sh")}

\* The values under a key: the lists of at most n entries, and a mapping.
HookValues(n) ==
    {List(l) : l \in UNION {[1..k -> HookEntries] : k \in 0..n}} \cup {GoodHook}

Present(c) == [k \in {x \in DOMAIN c : c[x] # None} |-> c[k]]

HookConfigs ==
    {Map(Present([preToolUse |-> p, stop |-> s, badType |-> b])) :
        p \in HookValues(MaxHooks) \cup {None},
        s \in HookValues(1) \cup {None},
        b \in {None, List(<<GoodHook>>)}}

ValidateInit ==
    /\ MergeIdle
    /\ FileOpsIdle
    /\ InterceptorIdle
    /\ arg \in HookConfigs
    /\ StoreInit(History(1), 1, MaxOps)

ValidateHooksConfig ==
    LET r == IF validate_hooks_config(arg) THEN "True" ELSE "False"
    IN Step(Outcome(fs, r), Op("validate_hooks_config", FALSE, arg, 0, r, NoDoc))

ValidateNext == ValidateHooksConfig

SpecValidate == ValidateInit /\ [][ValidateNext]_vars

\* C9: _validate_hooks_config(cfg) returns true if and only if every
\* top-level key of cfg is one of the six hook types, every value is a
\* sequence, and every element of each sequence is a mapping with
\* string-typed matcher and command keys, extra keys ignored; one violation
\* anywhere makes the whole configuration invalid.
C9_ValidateHooksIff ==
    last.op = "validate_hooks_config" =>
        (last.result = "True" <=> HooksConfigValid(last.doc))

\* A configuration with two hook types was refused for one violation: the
\* second entry of one list, the rest of the configuration being valid.
C9_Witness ==
    /\ last.op = "validate_hooks_config"
    /\ last.result = "False"
    /\ DOMAIN last.doc.map = {"preToolUse", "stop"}
    /\ last.doc.map["stop"] = List(<<ExtraKeyHook>>)
    /\ last.doc.map["preToolUse"] = List(<<GoodHook, NumCommandHook>>)

(***************************************************************************)
(* SpecMigrate: migrate_superclaude_data on settings files that hold any   *)
(* of the SuperClaude keys among other keys, with or without a metadata    *)
(* file.                                                                   *)
(***************************************************************************)
CoreInfo == Map([version |-> Str("3.0.0")])

\* The value a settings file of an earlier version holds under each key.
LegacyValue ==
    [components |-> Map([core |-> CoreInfo]),
     framework |-> Map([version |-> Str("3.0.0")]),
     superclaude |-> Bool(TRUE),
     mcp |-> List(<<Str("x")>>),
     theme |-> Str("dark"),
     v |-> Num(1)]

LegacyDocs == {Map([k \in D |-> LegacyValue[k]]) : D \in SUBSET DOMAIN LegacyValue}

MigrateInit ==
    /\ MergeIdle
    /\ FileOpsIdle
    /\ InterceptorIdle
    /\ arg \in LegacyDocs
    /\ LET f == save_settings(EmptyDir, 1, arg, TRUE).fs
       IN \/ StoreInit(f, 1, MaxOps)
          \/ StoreInit(add_component_registration(f, 1, "hooks", CoreInfo).fs, 1, MaxOps)

MigrateSuperclaudeData ==
    /\ ops > 0
    /\ \E now \in {clock} :
            \E out \in {migrate_superclaude_data(fs, now)} :
               Step(out, Op("migrate_superclaude_data", TRUE, NoDoc, 0, out.result, NoDoc))

MigrateNext ==
    \/ Tick
    \/ MigrateSuperclaudeData

SpecMigrate == MigrateInit /\ [][MigrateNext]_vars

Migrated ==
    /\ last.op = "migrate_superclaude_data"
    /\ last.result \in {"True", "False"}

\* C12: after migrate_superclaude_data returns, the settings document has
\* none of the top-level keys components, framework, superclaude, mcp, and
\* every other top-level key has the value it had before the migration.
C12_MigrationCleansSettings ==
    Migrated =>
        LET new == load_settings(fs)
            old == load_settings(last.pre)
        IN /\ new.ok
           /\ DOMAIN new.v.map \cap {"components", "framework", "superclaude", "mcp"} = {}
           /\ \A k \in DOMAIN old.v.map \ {"components", "framework", "superclaude", "mcp"} :
                k \in DOMAIN new.v.map /\ new.v.map[k] = old.v.map[k]

\* A migration moved all four keys out of a settings file that held other
\* keys too, into a metadata file that existed.
C12_Witness ==
    /\ Migrated
    /\ last.result = "True"
    /\ last.pre.metadata.exists
    /\ DOMAIN load_settings(last.pre).v.map =
          {"components", "framework", "superclaude", "mcp", "theme", "v"}
    /\ DOMAIN load_settings(fs).v.map = {"theme", "v"}

(***************************************************************************)
(* SpecPaths: one dot-path call on a settings file whose document has      *)
(* mappings, lists, strings and numbers under the keys of the path.        *)
(***************************************************************************)
MaxPath == 2

PathKeys == {"a", "b"}

PathLeaves == {Num(1), Str("b"), List(<<Str("b")>>), Bool(TRUE), Null}

PathValues == PathLeaves \cup {Map(m) : m \in PartialMaps(PathKeys, PathLeaves)}

PathDocs ==
    {Map(m) : m \in {n \in PartialMaps(PathKeys, PathValues) :
                        "b" \in DOMAIN n => n["b"] \in PathLeaves}}

RECURSIVE PathsOfLen(_)
PathsOfLen(n) ==
    IF n = 0 THEN {<<>>}
    ELSE {<<k>> \o p : k \in PathKeys, p \in PathsOfLen(n - 1)}

Paths == UNION {PathsOfLen(n) : n \in 1..MaxPath}

SetValues == {Num(2), Map([x |-> Num(1)])}

PathsInit ==
    /\ MergeIdle
    /\ FileOpsIdle
    /\ InterceptorIdle
    /\ arg \in PathDocs
    /\ StoreInit(save_settings(EmptyDir, 1, arg, TRUE).fs, 1, 1)

GetSetting ==
    \E keys \in Paths, default \in {Null, Str("dflt")} :
        LET r == get_setting(fs, keys, default)
        IN Step(Outcome(fs, r.result),
                Op("get_setting", FALSE, [path |-> keys, default |-> default], 0,
                   r.result, r.v))

SetSetting ==
    /\ ops > 0
    /\ \E keys \in Paths, value \in SetValues, cb \in BOOLEAN :
            \E out \in {set_setting(fs, clock, keys, value, cb)} :
               Step(out, Op("set_setting", cb, [path |-> keys, value |-> value], 0,
                            out.result, NoDoc))

RemoveSetting ==
    /\ ops > 0
    /\ \E keys \in Paths, cb \in BOOLEAN :
            \E out \in {remove_setting(fs, clock, keys, cb)} :
               Step(out, Op("remove_setting", cb, [path |-> keys], 0, out.result, NoDoc))

PathsNext ==
    \/ Tick
    \/ GetSetting
    \/ SetSetting
    \/ RemoveSetting

SpecPaths == PathsInit /\ [][PathsNext]_vars

\* The value a path of keys leads to through nested mappings, if any.
RECURSIVE Lookup(_, _)
Lookup(v, keys) ==
    IF keys = <<>> THEN [found |-> TRUE, v |-> v]
    ELSE IF IsMap(v) /\ Head(keys) \in DOMAIN v.map
    THEN Lookup(v.map[Head(keys)], Tail(keys))
    ELSE [found |-> FALSE, v |-> None]

\* A key before the last is missing, or the value under the keys before the
\* last is not a mapping.
IntermediateFails(doc, keys) ==
    LET parent == Lookup(doc, Front(keys))
    IN ~parent.found \/ ~IsMap(parent.v)

\* C13: when an intermediate key of the path is missing or an intermediate
\* value is not a mapping, get_setting returns the default and
\* remove_setting returns False and writes nothing, neither raising.
C13_DotPathFailsSoft ==
    LET old == load_settings(last.pre)
    IN (/\ last.op \in {"get_setting", "remove_setting"}
        /\ old.ok
        /\ IntermediateFails(old.v, last.doc.path)) =>
           /\ last.op = "get_setting" =>
                /\ last.result = "ok"
                /\ last.loaded = last.doc.default
           /\ last.op = "remove_setting" =>
                /\ last.result = "False"
                /\ fs = last.pre

C13_Witness ==
    /\ last.op = "remove_setting"
    /\ last.cb
    /\ last.doc.path = <<"a", "b">>
    /\ load_settings(last.pre).v = Map([a |-> List(<<Str("b")>>), b |-> Num(1)])
    /\ last.result = "False"
    /\ fs = last.pre

\* Every key of old outside the path is in new with the same value, at
\* each level the path passes through.
RECURSIVE SiblingsKept(_, _, _)
SiblingsKept(old, new, keys) ==
    /\ IsMap(new)
    /\ \A k \in DOMAIN old.map \ {Head(keys)} :
          k \in DOMAIN new.map /\ new.map[k] = old.map[k]
    /\ (/\ Len(keys) > 1
        /\ Head(keys) \in DOMAIN old.map
        /\ IsMap(old.map[Head(keys)])) =>
            /\ Head(keys) \in DOMAIN new.map
            /\ SiblingsKept(old.map[Head(keys)], new.map[Head(keys)], Tail(keys))

\* Every proper prefix of the path leads to a mapping.
IntermediatesAreMaps(doc, keys) ==
    \A n \in 1..(Len(keys) - 1) :
        LET at == Lookup(doc, SubSeq(keys, 1, n))
        IN at.found /\ IsMap(at.v)

\* C14: after set_setting every intermediate mapping of the path exists,
\* the path leads to a value, and every key outside the path is unchanged.
C14_SetSettingKeepsSiblings ==
    LET old == load_settings(last.pre)
        new == load_settings(fs)
    IN (last.op = "set_setting" /\ old.ok) =>
           /\ last.result = "None"
           /\ new.ok
           /\ IntermediatesAreMaps(new.v, last.doc.path)
           /\ Lookup(new.v, last.doc.path).found
           /\ SiblingsKept(old.v, new.v, last.doc.path)

C14_Witness ==
    /\ last.op = "set_setting"
    /\ last.doc.path = <<"a", "b">>
    /\ last.doc.value = Num(2)
    /\ load_settings(last.pre).v = Map([a |-> Map([a |-> Num(1)]), b |-> Str("b")])
    /\ load_settings(fs).v = Map([a |-> Map([a |-> Num(1), b |-> Num(2)]), b |-> Str("b")])

(***************************************************************************)
(* SpecRegistry: registrations and removals of two components, starting    *)
(* without a metadata file. arg is the set of names whose last             *)
(* registration or removal call was a registration.                        *)
(***************************************************************************)
MaxRegistryOps == 3

ComponentNames == {"core", "hooks"}

ComponentInfos == {CoreInfo, EmptyMap}

RegistryInit ==
    /\ MergeIdle
    /\ FileOpsIdle
    /\ InterceptorIdle
    /\ arg = {}
    /\ \E k \in 0..1 : StoreInit(History(k), k, MaxRegistryOps)

RegistryStep(out, op, registered) ==
    /\ ops > 0
    /\ fs' = out.fs
    /\ ops' = ops - 1
    /\ ticked' = FALSE
    /\ last' = op
    /\ arg' = registered
    /\ UNCHANGED <<clock, writer>>
    /\ UNCHANGED mergeVars
    /\ UNCHANGED fileOpsVars
    /\ UNCHANGED interceptorVars

AddComponentRegistration ==
    /\ ops > 0
    /\ \E name \in ComponentNames, info \in ComponentInfos :
            \E out \in {add_component_registration(fs, clock, name, info)} :
               RegistryStep(out, Op("add_component_registration", FALSE, arg, name,
                                    out.result, NoDoc),
                            arg \cup {name})

RemoveComponentRegistration ==
    /\ ops > 0
    /\ \E name \in ComponentNames :
            \E out \in {remove_component_registration(fs, name)} :
               RegistryStep(out, Op("remove_component_registration", FALSE, arg, name,
                                    out.result, NoDoc),
                            arg \ {name})

IsComponentInstalled ==
    \E name \in ComponentNames :
        LET r == is_component_installed(fs, name)
        IN RegistryStep(Outcome(fs, r),
                        Op("is_component_installed", FALSE, arg, name, r, NoDoc),
                        arg)

RegistryNext ==
    \/ Tick
    \/ AddComponentRegistration
    \/ RemoveComponentRegistration
    \/ IsComponentInstalled

SpecRegistry == RegistryInit /\ [][RegistryNext]_vars

\* The registry entry of a name in a directory, None when there is none.
EntryOf(f, name) ==
    LET components == get_installed_components(f)
    IN IF components.ok /\ HasKey(components.v, name)
       THEN components.v.map[name] ELSE None

\* C15: is_component_installed(name) is true iff the last registration or
\* removal call for name was a registration; remove_component_registration
\* returns true iff name was registered just before; a registration or
\* removal leaves the entries of other names and the settings file and its
\* backups as they were.
C15_RegistryFollowsLastCall ==
    /\ \A name \in ComponentNames :
          is_component_installed(fs, name) = IF name \in arg THEN "True" ELSE "False"
    /\ last.op = "is_component_installed" =>
          last.result = IF last.name \in last.doc THEN "True" ELSE "False"
    /\ last.op = "remove_component_registration" =>
          last.result = IF last.name \in last.doc THEN "True" ELSE "False"
    /\ last.op \in {"add_component_registration", "remove_component_registration"} =>
          /\ \A other \in ComponentNames \ {last.name} :
                EntryOf(fs, other) = EntryOf(last.pre, other)
          /\ fs.settings = last.pre.settings
          /\ fs.backups = last.pre.backups

C15_Witness ==
    /\ last.op = "remove_component_registration"
    /\ last.name = "core"
    /\ last.doc = {"core", "hooks"}
    /\ last.result = "True"
    /\ arg = {"hooks"}
    /\ fs.settings.exists
    /\ EntryOf(fs, "hooks") # None
    /\ EntryOf(fs, "core") = None

(***************************************************************************)
(* SpecInterceptor: one process_tool_call on an interceptor that has       *)
(* already let up to MaxPrior calls of an unsupported tool through.        *)
(***************************************************************************)
MaxPrior == 5

MaxEdits == 4

QuietEnv ==
    [environ |-> {}, argv |-> {}, api_key |-> FALSE, mcp_list |-> FALSE,
     log_ok |-> TRUE]

RECURSIVE Prior(_)
Prior(k) ==
    IF k = 0 THEN [session_stats |-> NewStats, log |-> <<>>]
    ELSE LET s == Prior(k - 1)
         IN After(s, process_tool_call(s, "Bash", EmptyMap, QuietEnv).s)

Edits(n) == List([i \in 1..n |-> Map([old_string |-> Str("x"), new_string |-> Str("y")])])

FileInputs ==
    {EmptyMap} \cup {Map([file_path |-> Str(f)]) : f \in {"/big", "/edge", "/missing"}}

MultiEditInputs ==
    {Map([file_path |-> Str("/edge")])} \cup
    {Map([file_path |-> Str("/edge"), edits |-> e]) :
        e \in {Edits(n) : n \in 0..MaxEdits} \cup {Null}}

TreeInputs ==
    {EmptyMap} \cup
    {Map([path |-> Str(d)]) : d \in DOMAIN OsDirs \cup {"/big", "/missing"}}

ToolCalls ==
    {[tool_name |-> t, tool_input |-> i] : t \in {"Read", "Write", "Edit"}, i \in FileInputs}
    \cup {[tool_name |-> "MultiEdit", tool_input |-> i] : i \in MultiEditInputs}
    \cup {[tool_name |-> DirectoryTree, tool_input |-> i] : i \in TreeInputs}
    \cup {[tool_name |-> t, tool_input |-> Map([path |-> Str("/few")])] :
            t \in {"LS", "Glob", ListDirectory}}
    \cup {[tool_name |-> "Bash", tool_input |-> EmptyMap]}

MorphFlags == {"--morph", "--morphllm", "--morph-only", "--morph-fast", "--no-morph"}

MorphVariables == {"MORPH_ENABLED", "MORPH_ONLY", "MORPH_FAST", "NO_MORPH"}

\* The flags come from the command line or from the environment.
FlagSources ==
    {[environ |-> {}, argv |-> a] : a \in SUBSET MorphFlags}
    \cup {[environ |-> e, argv |-> {}] : e \in SUBSET MorphVariables}

Envs ==
    {[environ |-> f.environ, argv |-> f.argv, api_key |-> k, mcp_list |-> m,
      log_ok |-> l] : f \in FlagSources, k \in BOOLEAN, m \in BOOLEAN, l \in BOOLEAN}

InterceptorInit ==
    /\ MergeIdle
    /\ FileOpsIdle
    /\ arg = None
    /\ StoreInit(EmptyDir, 0, 1)
    /\ call = NoCall
    /\ \E k \in 0..MaxPrior :
        /\ session_stats = Prior(k).session_stats
        /\ log = Prior(k).log

ProcessToolCall ==
    /\ ops > 0
    /\ \E c \in ToolCalls :
        \E env \in Envs :
            \E out \in {process_tool_call([session_stats |-> session_stats, log |-> log],
                                         c.tool_name, c.tool_input, env)} :
               /\ ops' = ops - 1
               /\ session_stats' = out.s.session_stats
               /\ log' = out.s.log
               /\ call' = [tool_name |-> c.tool_name, tool_input |-> c.tool_input,
                           env |-> env, before |-> session_stats, logBefore |-> log,
                           flags |-> out.flags, intercept |-> out.intercept,
                           raised |-> out.raised, response |-> out.response]
               /\ UNCHANGED <<fs, clock, ticked, last, arg, writer>>
               /\ UNCHANGED mergeVars
               /\ UNCHANGED fileOpsVars

InterceptorNext == ProcessToolCall

SpecInterceptor == InterceptorInit /\ [][InterceptorNext]_vars

Called == call.tool_name # ""

\* The counters after a call that incremented total_operations and counter.
Counted(counter) ==
    [call.before EXCEPT !.total_operations = @ + 1, ![counter] = @ + 1]

\* C16: every process_tool_call increments total_operations and exactly one
\* of native_operations, morph_operations, fallback_operations by one, so
\* total_operations is their sum.
C16_CountersSumToTotal ==
    /\ session_stats.total_operations =
         session_stats.native_operations + session_stats.morph_operations
         + session_stats.fallback_operations
    /\ Called =>
         \E counter \in {"native_operations", "morph_operations", "fallback_operations"} :
             session_stats = Counted(counter)

\* C17: a directory tree call on which the overflow heuristic fires is
\* blocked with a list_directory call on the same path as the alternative
\* and counted as a morph operation, whatever the flags and the backend.
C17_DirectoryTreeSafetyFirst ==
    (/\ call.tool_name = DirectoryTree
     /\ detect_token_overflow_risk(call.tool_name, call.tool_input)
     /\ call.raised = "none") =>
        /\ call.response.map["action"] = Str("block")
        /\ call.response.map["alternative_tool"] = Str(ListDirectory)
        /\ call.response.map["alternative_input"] =
             Map([path |-> call.tool_input.map["path"]])
        /\ session_stats = Counted("morph_operations")

C17_Witness ==
    /\ call.tool_name = DirectoryTree
    /\ call.tool_input = Map([path |-> Str("/git")])
    /\ call.flags = {"--no-morph", "--morph-only"}
    /\ ~call.env.api_key
    /\ ~call.env.mcp_list
    /\ call.raised = "none"
    /\ call.response.map["action"] = Str("block")

Supported == call.tool_name \in DOMAIN TOOL_MAPPING

Forcing == {"--morph-only", "--morph", "--morphllm"}

\* C18: with --no-morph the call is not intercepted; otherwise with
\* --morph-only, --morph or --morphllm it is intercepted iff the tool is in
\* the mapping; with none of them auto-activation decides.
C18_FlagsFirstMatchWins ==
    call.intercept # "none" =>
        /\ "--no-morph" \in call.flags => call.intercept = "False"
        /\ ("--no-morph" \notin call.flags /\ call.flags \cap Forcing # {}) =>
             call.intercept = IF Supported THEN "True" ELSE "False"
        /\ call.flags \cap (Forcing \cup {"--no-morph"}) = {} =>
             call.intercept = should_auto_activate(session_stats, call.tool_name,
                                                   call.tool_input, call.flags)

C18_Witness ==
    /\ call.flags = {"--no-morph", "--morph-only", "--morph", "--morph-fast"}
    /\ call.tool_name = "Read"
    /\ call.tool_input = Map([file_path |-> Str("/big")])
    /\ call.before.total_operations = MaxPrior
    /\ call.intercept = "False"
    /\ call.response = Map([action |-> Str("allow")])

\* The number of edits of a tool input
NumEdits(tool_input) ==
    IF HasKey(tool_input, "edits") /\ IsList(tool_input.map["edits"])
    THEN Len(tool_input.map["edits"].list) ELSE 0

\* The call is on an existing file of more than 1 MiB
LargeFile ==
    /\ HasKey(call.tool_input, "file_path")
    /\ \E f \in DOMAIN OsFiles :
         call.tool_input.map["file_path"] = Str(f) /\ OsFiles[f] > 1048576

\* C19: with none of --no-morph, --morph-only, --morph, --morphllm a call
\* auto-activates iff its tool is in the mapping and the session has reached
\* 5 operations counting this one, or it is a MultiEdit of at least 3 edits,
\* or it is LS, or --morph-fast is active and it is a Read, Write or Edit of
\* an existing file of more than 1 MiB or a MultiEdit of more than one edit.
C19_AutoActivationConditions ==
    (/\ call.intercept \in {"True", "False"}
     /\ call.flags \cap (Forcing \cup {"--no-morph"}) = {}) =>
        (call.intercept = "True" <=>
            /\ Supported
            /\ \/ call.before.total_operations + 1 >= 5
               \/ call.tool_name = "MultiEdit" /\ NumEdits(call.tool_input) >= 3
               \/ call.tool_name = "LS"
               \/ /\ "--morph-fast" \in call.flags
                  /\ \/ call.tool_name \in {"Read", "Write", "Edit"} /\ LargeFile
                     \/ call.tool_name = "MultiEdit" /\ NumEdits(call.tool_input) > 1)

C19_Witness ==
    /\ call.tool_name = "MultiEdit"
    /\ NumEdits(call.tool_input) = 4
    /\ call.flags = {}
    /\ call.before = NewStats
    /\ call.intercept = "True"

\* C20: a call selected for interception is allowed with the fallback
\* annotation and counted as a fallback when the key is unset or the server
\* is not listed, and otherwise blocked with the mapped tool and the
\* remapped input and counted as a morph operation.
C20_FallbackWhenBackendUnavailable ==
    (call.intercept = "True" /\ call.raised = "none") =>
        IF ~(call.env.api_key /\ call.env.mcp_list)
        THEN /\ call.response.map["action"] = Str("allow")
             /\ HasKey(call.response, "fallback_mode")
             /\ call.response.map["fallback_mode"] = Bool(TRUE)
             /\ session_stats = Counted("fallback_operations")
        ELSE /\ call.response.map["action"] = Str("block")
             /\ call.response.map["alternative_tool"] = Str(TOOL_MAPPING[call.tool_name])
             /\ call.response.map["alternative_input"] =
                  IF call.tool_name = "MultiEdit"
                  THEN Map([file_path |-> call.tool_input.map["file_path"],
                            edits |-> IF HasKey(call.tool_input, "edits")
                                      THEN call.tool_input.map["edits"]
                                      ELSE List(<<>>),
                            batch_mode |-> Bool(TRUE),
                            atomic_operation |-> Bool(TRUE)])
                  ELSE call.tool_input
             /\ session_stats = Counted("morph_operations")

C20_Witness ==
    /\ call.tool_name = "MultiEdit"
    /\ NumEdits(call.tool_input) = 3
    /\ call.flags = {}
    /\ call.env.api_key
    /\ ~call.env.mcp_list
    /\ call.raised = "none"
    /\ HasKey(call.response, "fallback_mode")
    /\ session_stats.fallback_operations = 1

\* The action a log record carries for the decision of the last call
LoggedAction ==
    IF call.response.map["action"] = Str("allow")
    THEN IF HasKey(call.response, "fallback_mode") THEN "fallback" ELSE "allow"
    ELSE IF HasKey(call.response.map["morph_metadata"], "safety_mode")
    THEN "safe_intercept" ELSE "intercept"

\* The last call on an interceptor whose log file is empty
OnEmptyLog ==
    process_tool_call([session_stats |-> call.before, log |-> <<>>],
                      call.tool_name, call.tool_input, call.env)

\* C22: a process_tool_call that returns a decision has appended exactly one
\* record to the log, with the tool name, the action of the decision and the
\* four counters as they were when it was written; no call changes or
\* removes a record that was in the log, and the outcome of a call does not
\* depend on what the log holds.
C22_EveryDecisionLogged ==
    Called =>
        /\ Len(log) \in {Len(call.logBefore), Len(call.logBefore) + 1}
        /\ SubSeq(log, 1, Len(call.logBefore)) = call.logBefore
        /\ call.raised = "none" =>
             /\ Len(log) = Len(call.logBefore) + 1
             /\ log[Len(log)].tool_name = call.tool_name
             /\ log[Len(log)].action = LoggedAction
             /\ DOMAIN log[Len(log)].session_stats = DOMAIN NewStats
             /\ log[Len(log)].session_stats =
                  IF LoggedAction = "allow" THEN session_stats
                  ELSE [call.before EXCEPT !.total_operations = @ + 1]
        /\ OnEmptyLog.response = call.response
        /\ OnEmptyLog.raised = call.raised
        /\ OnEmptyLog.s.session_stats = session_stats
        /\ log = call.logBefore \o OnEmptyLog.s.log

C22_Witness ==
    /\ Called
    /\ Len(call.logBefore) = 2
    /\ call.tool_name = "Edit"
    /\ call.raised = "none"
    /\ LoggedAction = "intercept"
    /\ Len(log) = 3
    /\ log[3].action = "intercept"
    /\ log[3].session_stats.total_operations = 3
    /\ log[3].session_stats.morph_operations = 0

\* The directory the last call names
TargetDir == OsDirs[call.tool_input.map["path"].str]

ProblematicNames ==
    {".git", "node_modules", "logs", "__pycache__", ".cache", "build", "dist",
     ".venv", "venv"}

\* C23: on a directory tree call that names a directory the overflow
\* heuristic reports risk iff the directory has at least 8 subdirectories,
\* or a child with one of the problematic names, or at least 15 entries, or
\* cannot be listed; on a call of any other tool it reports none.
C23_OverflowHeuristicIff ==
    Called =>
        IF call.tool_name # DirectoryTree
        THEN ~detect_token_overflow_risk(call.tool_name, call.tool_input)
        ELSE (/\ HasKey(call.tool_input, "path")
              /\ call.tool_input.map["path"].str \in DOMAIN OsDirs) =>
                (detect_token_overflow_risk(call.tool_name, call.tool_input) <=>
                    \/ Cardinality(TargetDir.dirs) >= 8
                    \/ (TargetDir.dirs \cup TargetDir.files) \cap ProblematicNames # {}
                    \/ Cardinality(TargetDir.dirs \cup TargetDir.files) >= 15
                    \/ ~TargetDir.listable)

(***************************************************************************)
(* SpecMain: one run of the hook process, main(), with one argument, after *)
(* up to MaxRuns earlier runs have written to the log file.                *)
(***************************************************************************)
MaxRuns == 2

ToolCallData(c) ==
    json_dump(Map([tool_name |-> Str(c.tool_name), tool_input |-> c.tool_input]))

\* sys.argv[1]: a tool call, an object without tool_name or tool_input, a
\* tool_input that is no object, JSON that is no object, and text that is
\* not JSON.
MainArgs ==
    {ToolCallData(c) : c \in ToolCalls}
    \cup {json_dump(v) : v \in {EmptyMap,
                                Map([tool_name |-> Str("Read")]),
                                Map([tool_input |-> Map([path |-> Str("/git")])]),
                                Map([tool_name |-> Str("Bash"), tool_input |-> Null]),
                                List(<<>>), Num(1), Null, Str("Read")}}
    \cup {<<>>, <<P("{")>>, <<P("{"), Str("tool_name")>>, <<P("}")>>}

\* With one argument the command line carries no flag.
MainEnvs ==
    {[environ |-> e, argv |-> {}, api_key |-> k, mcp_list |-> m, log_ok |-> l] :
        e \in SUBSET MorphVariables, k \in BOOLEAN, m \in BOOLEAN, l \in BOOLEAN}

\* The log file after k runs that let a Bash call through.
RECURSIVE Runs(_)
Runs(k) ==
    IF k = 0 THEN <<>>
    ELSE LET before == Runs(k - 1)
         IN After(before,
                  main(before, ToolCallData([tool_name |-> "Bash",
                                             tool_input |-> EmptyMap]),
                       QuietEnv).s.log)

MainInit ==
    /\ MergeIdle
    /\ FileOpsIdle
    /\ arg = None
    /\ StoreInit(EmptyDir, 0, 1)
    /\ session_stats = NewStats
    /\ call = NoCall
    /\ \E k \in 0..MaxRuns : log = Runs(k)

Main ==
    /\ ops > 0
    /\ \E argv1 \in MainArgs :
        \E env \in MainEnvs :
            \E out \in {main(log, argv1, env)} :
               /\ ops' = ops - 1
               /\ session_stats' = out.s.session_stats
               /\ log' = out.s.log
               /\ call' = [tool_name |-> "main", argv |-> argv1, env |-> env,
                           logBefore |-> log, stdout |-> out.stdout,
                           exit_code |-> out.exit_code, caught |-> out.caught,
                           crashed |-> out.crashed, flags |-> out.flags,
                           intercept |-> out.intercept]
               /\ UNCHANGED <<fs, clock, ticked, last, arg, writer>>
               /\ UNCHANGED mergeVars
               /\ UNCHANGED fileOpsVars

MainNext == Main

SpecMain == MainInit /\ [][MainNext]_vars

Ran == call.tool_name = "main"

\* C21: a run of the hook process with one argument prints exactly one
\* decision and exits with code 2 iff the decision is block, else with code
\* 0; when parsing the argument or deciding raised (a log write that fails
\* included) the decision is allow with an error annotation and the exit
\* code is 0; no exception leaves main.
C21_MainFailsOpen ==
    Ran =>
        /\ ~call.crashed
        /\ Len(call.stdout) = 1
        /\ IsMap(call.stdout[1])
        /\ call.stdout[1].map["action"] \in {Str("allow"), Str("block")}
        /\ call.exit_code = IF call.stdout[1].map["action"] = Str("block") THEN 2 ELSE 0
        /\ (\/ ~json_load(call.argv).ok
            \/ ~IsMap(json_load(call.argv).v)
            \/ call.caught # "none"
            \/ (~call.env.log_ok /\ IsMap(json_load(call.argv).v))) =>
               /\ call.stdout[1].map["action"] = Str("allow")
               /\ HasKey(call.stdout[1], "error")
               /\ call.exit_code = 0

C21_Witness ==
    /\ Ran
    /\ call.argv = ToolCallData([tool_name |-> "Read",
                                 tool_input |-> Map([file_path |-> Str("/big")])])
    /\ call.env.environ = {"MORPH_ENABLED"}
    /\ call.env.api_key /\ call.env.mcp_list
    /\ ~call.env.log_ok
    /\ call.caught = "OSError"
    /\ call.exit_code = 0
    /\ session_stats.total_operations = 1

(***************************************************************************)
(* SpecHookPaths: configure_hooks with a configuration of up to MaxHooks   *)
(* hooks under preToolUse and at most one under stop, each with one of the *)
(* modelled commands, and validate_hooks_paths.                            *)
(***************************************************************************)
CommandHooks ==
    {Map([matcher |-> Str("^Read$"), command |-> Str(c)]) : c \in DOMAIN CommandParts}

PathHookConfigs ==
    {Map(Present([preToolUse |-> List(p), stop |-> st])) :
        p \in UNION {[1..k -> CommandHooks] : k \in 0..MaxHooks},
        st \in {None} \cup {List(<<h>>) : h \in CommandHooks}}

HookPathsInit ==
    /\ MergeIdle
    /\ FileOpsIdle
    /\ InterceptorIdle
    /\ arg \in PathHookConfigs
    /\ StoreInit(EmptyDir, 1, 2)

ValidateHooksPaths ==
    LET r == validate_hooks_paths(fs)
    IN Step(Outcome(fs, r.exc), Op("validate_hooks_paths", FALSE, NoDoc, 0, r, NoDoc))

HookPathsNext ==
    \/ ConfigureHooks
    \/ ValidateHooksPaths

SpecHookPaths == HookPathsInit /\ [][HookPathsNext]_vars

\* The hooks section of the settings file
HooksSection ==
    IF fs.settings.exists /\ HasKey(json_load(fs.settings.bytes).v, "hooks")
    THEN json_load(fs.settings.bytes).v.map["hooks"].map
    ELSE <<>>

\* The script path of a command: the second token after python3, python or
\* node, else the first token; "" when the command has no token
ScriptPathOf(command) ==
    LET parts == CommandParts[command]
    IN IF Len(parts) >= 2 /\ parts[1] \in {"python3", "python", "node"} THEN parts[2]
       ELSE IF Len(parts) >= 1 THEN parts[1]
       ELSE ""

\* The hook entries, by hook type and position, whose script path is not an
\* existing regular file
BadEntries ==
    {e \in UNION {{<<t, i - 1>> : i \in 1..Len(HooksSection[t].list)} :
                    t \in DOMAIN HooksSection} :
        ScriptPathOf(HooksSection[e[1]].list[e[2] + 1].map["command"].str)
            \notin HookOsFiles}

\* C24: validate_hooks_paths returns, with one error for each hook entry of
\* each hook type whose script path is missing or is not a file, whatever
\* the entries before it, and is_valid is true iff there is no error.
C24_ValidateHooksPathsChecksAll ==
    last.op = "validate_hooks_paths" =>
        /\ last.result.exc = "none"
        /\ Len(last.result.errors) = Cardinality(BadEntries)
        /\ {<<last.result.errors[n].hook_type, last.result.errors[n].i>> :
                n \in 1..Len(last.result.errors)} = BadEntries
        /\ last.result.is_valid <=> last.result.errors = <<>>

\* C25: a restore_backup of a backup that is in the backups directory and
\* parses returns True and leaves the settings file with the bytes the
\* backup had when the call started, and the backup itself as it was, also
\* when the directory held KeepCount backups.
C25_RestoreBackupRestores ==
    (/\ last.op = "restore_backup"
     /\ last.name \in DOMAIN last.pre.backups
     /\ json_load(last.pre.backups[last.name].bytes).ok) =>
        /\ last.result = "True"
        /\ fs.settings.exists
        /\ fs.settings.bytes = last.pre.backups[last.name].bytes
        /\ last.name \in DOMAIN fs.backups
        /\ fs.backups[last.name].bytes = last.pre.backups[last.name].bytes

(***************************************************************************)
(* SpecSaveSteps: save_settings(doc, create_backup=True) on an existing    *)
(* settings file, statement by statement, the backup succeeding or raising.*)
(* last is the call in progress, last.pre the directory it found.          *)
(***************************************************************************)
SaveStepsInit ==
    /\ MergeIdle
    /\ FileOpsIdle
    /\ InterceptorIdle
    /\ arg = None
    /\ \E k \in (1..MaxHistory) \cup {KeepCount} : StoreInit(History(k), k, MaxWrites)

\* Lines 54-55: _create_settings_backup() returns.
BackupDone ==
    /\ writer.pc = "idle"
    /\ ops > 0
    /\ fs.settings.exists
    /\ \E doc \in SaveDocs(fs) :
        /\ fs' = create_settings_backup(fs, clock)
        /\ writer' = [pc |-> "backed_up", doc |-> doc,
                      old |-> load_settings(fs).v, left |-> json_dump(doc)]
        /\ last' = Op("save_settings", TRUE, doc, 0, "running", NoDoc)
    /\ ops' = ops - 1
    /\ ticked' = FALSE
    /\ UNCHANGED <<clock, arg>>
    /\ UNCHANGED mergeVars
    /\ UNCHANGED fileOpsVars
    /\ UNCHANGED interceptorVars

\* Lines 54-55: _create_settings_backup() raises; save_settings has no
\* handler around it and the exception leaves save_settings.
BackupFails ==
    /\ writer.pc = "idle"
    /\ ops > 0
    /\ fs.settings.exists
    /\ \E doc \in SaveDocs(fs) :
        \E n \in -1..(Len(fs.settings.bytes) - 1) :
            /\ fs' = create_settings_backup_fails(fs, clock, n)
            /\ writer' = [pc |-> "raised", doc |-> doc,
                          old |-> load_settings(fs).v, left |-> json_dump(doc)]
            /\ last' = Op("save_settings", TRUE, doc, 0, "OSError", NoDoc)
    /\ ops' = ops - 1
    /\ ticked' = FALSE
    /\ UNCHANGED <<clock, arg>>
    /\ UNCHANGED mergeVars
    /\ UNCHANGED fileOpsVars
    /\ UNCHANGED interceptorVars

\* The caller, having caught the exception, goes on.
CallerGoesOn ==
    /\ writer.pc = "raised"
    /\ writer' = IdleWriter
    /\ UNCHANGED <<fs, clock, ticked, ops, last, arg>>
    /\ UNCHANGED mergeVars
    /\ UNCHANGED fileOpsVars
    /\ UNCHANGED interceptorVars

SaveStepsNext ==
    \/ Tick
    \/ BackupDone
    \/ BackupFails
    \/ CallerGoesOn
    \/ WriterOpen
    \/ WriterWrite
    \/ WriterClose

SpecSaveSteps == SaveStepsInit /\ [][SaveStepsNext]_vars

\* C26: in save_settings(doc, create_backup=True) on an existing file the
\* backups directory holds a complete copy of the file before the file is
\* opened for writing and from then on; when the backup raises, the
\* exception reaches the caller and the file is as it was.
C26_BackupBeforeWrite ==
    /\ writer.pc \in {"backed_up", "open"} =>
         \E n \in DOMAIN fs.backups : fs.backups[n].bytes = last.pre.settings.bytes
    /\ writer.pc = "backed_up" => fs.settings = last.pre.settings
    /\ writer.pc = "raised" =>
         /\ last.result = "OSError"
         /\ fs.settings = last.pre.settings

C26_Witness ==
    /\ writer.pc = "raised"
    /\ last.result = "OSError"
    /\ clock \in DOMAIN fs.backups
    /\ fs.backups[clock].bytes # fs.settings.bytes
    /\ fs.settings.exists
    /\ fs.settings.bytes = json_dump(NewDoc(2))

(***************************************************************************)
(* SpecMigrateSteps: migrate_superclaude_data statement by statement. The  *)
(* two files are written one after the other, each opened with 'w' and     *)
(* filled in any number of chunks; a write may raise, and the process may  *)
(* stop in any state. writer.pc is the position, writer.phase the write.   *)
(***************************************************************************)
\* Mutant of MigrationOrder: the settings file is cleaned first.
MigrationOrder_settings_first == <<"save_settings", "save_metadata">>

\* Lines 126 and 133: save_metadata(merged_metadata), then
\* save_settings(clean_settings, create_backup=True)
MigrationOrder == <<"save_metadata", "save_settings">>

MigrateStepsInit ==
    /\ MergeIdle
    /\ FileOpsIdle
    /\ InterceptorIdle
    /\ arg \in LegacyDocs
    /\ LET f == save_settings(EmptyDir, 1, arg, TRUE).fs
       IN \/ StoreInit(f, 1, 1)
          \/ StoreInit(add_component_registration(f, 1, "hooks", CoreInfo).fs, 1, 1)

\* Lines 107-123: the settings are loaded and the data to migrate and the
\* merged metadata computed; a call that has nothing to write returns.
MigrateBegin ==
    /\ writer = IdleWriter
    /\ LET out == migrate_superclaude_data(fs, clock)
           settings == load_settings(fs).v
           data_to_migrate == Restrict(settings, SuperclaudeFields)
       IN IF out.result # "True"
          THEN Step(out, Op("migrate_superclaude_data", TRUE, NoDoc, 0, out.result, NoDoc))
          ELSE /\ ops > 0
               /\ ops' = ops - 1
               /\ ticked' = FALSE
               /\ last' = Op("migrate_superclaude_data", TRUE, NoDoc, 0, "running", NoDoc)
               /\ writer' =
                    [pc |-> "ready", phase |-> 1, data |-> data_to_migrate,
                     merged |-> MergeValues(load_metadata(fs).v, data_to_migrate),
                     clean |-> Restrict(settings, DOMAIN settings.map \ SuperclaudeFields),
                     left |-> <<>>]
               /\ UNCHANGED <<fs, clock, arg>>
               /\ UNCHANGED mergeVars
               /\ UNCHANGED fileOpsVars
               /\ UNCHANGED interceptorVars

\* open(file, 'w') of the write the migration has reached; save_settings
\* takes its backup first.
MigrateOpen ==
    /\ writer.pc = "ready"
    /\ IF MigrationOrder[writer.phase] = "save_metadata"
       THEN /\ fs' = [fs EXCEPT !.metadata = File(<<>>, fs.stamp + 1), !.stamp = @ + 1]
            /\ writer' = [writer EXCEPT !.pc = "open", !.left = json_dump(writer.merged)]
       ELSE /\ fs' = open_w(create_settings_backup(fs, clock))
            /\ writer' = [writer EXCEPT !.pc = "open", !.left = json_dump(writer.clean)]
    /\ UNCHANGED <<clock, ticked, ops, last, arg>>
    /\ UNCHANGED mergeVars
    /\ UNCHANGED fileOpsVars
    /\ UNCHANGED interceptorVars

\* json.dump: the next chunk reaches the open file.
MigrateWrite ==
    /\ writer.pc = "open"
    /\ \E n \in 1..Len(writer.left) :
        /\ fs' = IF MigrationOrder[writer.phase] = "save_metadata"
                 THEN [fs EXCEPT !.metadata.bytes = @ \o SubSeq(writer.left, 1, n)]
                 ELSE write(fs, SubSeq(writer.left, 1, n))
        /\ writer' = [writer EXCEPT !.left = SubSeq(@, n + 1, Len(@))]
    /\ UNCHANGED <<clock, ticked, ops, last, arg>>
    /\ UNCHANGED mergeVars
    /\ UNCHANGED fileOpsVars
    /\ UNCHANGED interceptorVars

\* The write raises IOError: ValueError leaves migrate_superclaude_data.
MigrateWriteFails ==
    /\ writer.pc = "open"
    /\ writer.left # <<>>
    /\ writer' = [writer EXCEPT !.pc = "raised"]
    /\ last' = [last EXCEPT !.result = "ValueError"]
    /\ UNCHANGED <<fs, clock, ticked, ops, arg>>
    /\ UNCHANGED mergeVars
    /\ UNCHANGED fileOpsVars
    /\ UNCHANGED interceptorVars

\* The with block ends; after the second write the call returns True.
MigrateClose ==
    /\ writer.pc = "open"
    /\ writer.left = <<>>
    /\ IF writer.phase = 1
       THEN /\ writer' = [writer EXCEPT !.pc = "ready", !.phase = 2]
            /\ UNCHANGED last
       ELSE /\ writer' = [writer EXCEPT !.pc = "done"]
            /\ last' = [last EXCEPT !.result = "True"]
    /\ UNCHANGED <<fs, clock, ticked, ops, arg>>
    /\ UNCHANGED mergeVars
    /\ UNCHANGED fileOpsVars
    /\ UNCHANGED interceptorVars

MigrateStepsNext ==
    \/ MigrateBegin
    \/ MigrateOpen
    \/ MigrateWrite
    \/ MigrateWriteFails
    \/ MigrateClose

SpecMigrateSteps == MigrateStepsInit /\ [][MigrateStepsNext]_vars

\* Everything in value is in held: a mapping key by key, anything else whole
RECURSIVE Holds(_, _)
Holds(held, value) ==
    IF IsMap(value)
    THEN /\ IsMap(held)
         /\ \A k \in DOMAIN value.map :
              k \in DOMAIN held.map /\ Holds(held.map[k], value.map[k])
    ELSE held = value

\* The file parses and holds value under key
FileHolds(file, key, value) ==
    /\ file.exists
    /\ json_load(file.bytes).ok
    /\ HasKey(json_load(file.bytes).v, key)
    /\ Holds(json_load(file.bytes).v.map[key], value)

Migrating == writer # IdleWriter /\ last.op = "migrate_superclaude_data"

\* C27: from the start of a migration to its end, and where it raised, the
\* value of each migrated field is in the settings file or in the metadata
\* file; the metadata file is complete before the settings file is opened,
\* and the call ends with the files the migration is specified to leave.
C27_MigratedDataNeverLost ==
    Migrating =>
        /\ \A k \in DOMAIN writer.data.map :
             \/ FileHolds(fs.settings, k, writer.data.map[k])
             \/ FileHolds(fs.metadata, k, writer.data.map[k])
        /\ fs.settings # last.pre.settings =>
             \A k \in DOMAIN writer.data.map :
                 FileHolds(fs.metadata, k, writer.data.map[k])
        /\ writer.pc = "done" =>
             /\ fs.settings.bytes = migrate_superclaude_data(last.pre, clock).fs.settings.bytes
             /\ fs.metadata.bytes = migrate_superclaude_data(last.pre, clock).fs.metadata.bytes

\* The write of the cleaned settings raised after the file was truncated,
\* the metadata file having held another component before.
C27_Witness ==
    /\ Migrating
    /\ writer.pc = "raised"
    /\ writer.phase = 2
    /\ fs.settings.bytes = <<>>
    /\ last.pre.metadata.exists
    /\ DOMAIN writer.data.map = SuperclaudeFields
    /\ FileHolds(fs.metadata, "components", Map([core |-> CoreInfo, hooks |-> EmptyMap]))
    /\ ~FileHolds(fs.settings, "components", writer.data.map["components"])

\* C28: after a set_setting(path, value) that returned, get_setting(path)
\* returns value, whatever the document held at the path or along it.
C28_SetThenGetRoundTrip ==
    (last.op = "set_setting" /\ last.result = "None") =>
        get_setting(fs, last.doc.path, Str("dflt")) =
            [result |-> "ok", v |-> last.doc.value]

(***************************************************************************)
(* SpecRedirect: a process_tool_call that returns a block decision, and    *)
(* then the call of the alternative tool the decision names, on the same   *)
(* interceptor, with any input and under any flags.                        *)
(***************************************************************************)
\* The flags and backends under which the first call is made
FirstEnvs ==
    {[environ |-> {}, argv |-> a, api_key |-> b, mcp_list |-> b, log_ok |-> TRUE] :
        a \in {{}, {"--morph"}, {"--morph-only"}, {"--morph-fast"}, {"--morphllm"}},
        b \in BOOLEAN}

\* The flags, backends and log under which the alternative tool is called
RedirectEnvs ==
    {[environ |-> {}, argv |-> a, api_key |-> k, mcp_list |-> m, log_ok |-> l] :
        a \in SUBSET MorphFlags, k \in BOOLEAN, m \in BOOLEAN, l \in BOOLEAN}

RedirectInit ==
    /\ MergeIdle
    /\ FileOpsIdle
    /\ arg = None
    /\ StoreInit(EmptyDir, 0, 2)
    /\ call = NoCall
    /\ \E k \in 0..MaxPrior :
        /\ session_stats = Prior(k).session_stats
        /\ log = Prior(k).log

\* The call of tool_name with tool_input under env; origin is the tool whose
\* block decision named tool_name as the alternative ("": none).
CallTool(tool_name, tool_input, env, origin) ==
    \E out \in {process_tool_call([session_stats |-> session_stats, log |-> log],
                                 tool_name, tool_input, env)} :
       /\ ops' = ops - 1
       /\ session_stats' = out.s.session_stats
       /\ log' = out.s.log
       /\ call' = [tool_name |-> tool_name, tool_input |-> tool_input,
                   env |-> env, before |-> session_stats, logBefore |-> log,
                   flags |-> out.flags, intercept |-> out.intercept,
                   raised |-> out.raised, response |-> out.response,
                   origin |-> origin]
       /\ UNCHANGED <<fs, clock, ticked, last, arg, writer>>
       /\ UNCHANGED mergeVars
       /\ UNCHANGED fileOpsVars

FirstCall ==
    /\ ops = 2
    /\ \E c \in ToolCalls :
        \E env \in FirstEnvs : CallTool(c.tool_name, c.tool_input, env, "")

Blocked ==
    /\ Called
    /\ call.raised = "none"
    /\ call.response.map["action"] = Str("block")

CallAlternative ==
    /\ ops = 1
    /\ Blocked
    /\ \E tool_input \in {call.response.map["alternative_input"], EmptyMap, Null} :
        \E env \in RedirectEnvs :
            CallTool(call.response.map["alternative_tool"].str, tool_input, env,
                     call.tool_name)

RedirectNext ==
    \/ FirstCall
    \/ CallAlternative

SpecRedirect == RedirectInit /\ [][RedirectNext]_vars

Redirected == Called /\ "origin" \in DOMAIN call /\ call.origin # ""

\* C29: the call of the alternative tool of a block decision is never
\* blocked: it is let through as a native call with the decision allow,
\* under every set of flags, input, backend state and counter values; it
\* returns no decision only when the log cannot be written.
C29_RedirectionNeverChains ==
    Redirected =>
        /\ call.intercept = "False"
        /\ call.raised = (IF call.env.log_ok THEN "none" ELSE "OSError")
        /\ call.raised = "none" =>
             /\ call.response = Map([action |-> Str("allow")])
             /\ session_stats = Counted("native_operations")

C29_Witness ==
    /\ Redirected
    /\ call.origin = DirectoryTree
    /\ call.tool_name = ListDirectory
    /\ call.tool_input = Map([path |-> Str("/git")])
    /\ call.flags = {"--morph-only", "--morph-fast"}
    /\ call.env.api_key /\ call.env.mcp_list
    /\ call.before.total_operations = MaxPrior + 1
    /\ call.response = Map([action |-> Str("allow")])

(***************************************************************************)
(* SpecFileOps: a FileOperations object (dry_run False) performs up to     *)
(* MaxFileOps operations in "/t" and then rolls them back.                 *)
(***************************************************************************)
MaxFileOps == 3

FileTargets == {"/t/a", "/t/d/x"}
FileContents == {"new", "newer"}
FileSources == {"/s/f", "/t/a"}
DirSources == {"/s/d", "/s/f"}
LinkSources == {"/s/f", "/s/d", "/t/a", "/t/d", "/t/l"}

FileOpsInit ==
    /\ MergeIdle
    /\ InterceptorIdle
    /\ arg = None
    /\ StoreInit(EmptyDir, 0, 0)
    /\ \E existing \in SUBSET {"/t/a"} : tree = InitialTree(existing)
    /\ backup_dir = <<>>
    /\ operations_log = <<>>
    /\ returned = NoReturn

Current == FileOpsState(tree, backup_dir, operations_log)

Operating ==
    /\ returned.op # "rollback_operations"
    /\ Len(operations_log) < MaxFileOps

Return(op, r) ==
    /\ tree' = r.s.tree
    /\ backup_dir' = r.s.backup_dir
    /\ operations_log' = r.s.operations_log
    /\ returned' = [op |-> op, value |-> r.value]
    /\ UNCHANGED mergeVars
    /\ UNCHANGED storeVars
    /\ UNCHANGED interceptorVars

WriteFileCall ==
    /\ Operating
    /\ \E path \in FileTargets, content \in FileContents, backup \in BOOLEAN :
        Return("write_file", write_file(Current, path, content, backup))

CopyFileCall ==
    /\ Operating
    /\ \E source \in FileSources, target \in FileTargets, backup \in BOOLEAN :
        Return("copy_file", copy_file(Current, source, target, backup))

CopyDirectoryCall ==
    /\ Operating
    /\ \E source \in DirSources, backup \in BOOLEAN :
        Return("copy_directory", copy_directory(Current, source, "/t/d", backup))

CreateSymlinkCall ==
    /\ Operating
    /\ \E source \in LinkSources, backup \in BOOLEAN :
        Return("create_symlink", create_symlink(Current, source, "/t/l", backup))

RollbackCall ==
    /\ returned.op # "rollback_operations"
    /\ Return("rollback_operations", rollback_operations(Current))

FileOpsNext ==
    \/ WriteFileCall
    \/ CopyFileCall
    \/ CopyDirectoryCall
    \/ CreateSymlinkCall
    \/ RollbackCall

SpecFileOps == FileOpsInit /\ [][FileOpsNext]_vars

AllSucceeded == \A i \in 1..Len(operations_log) : operations_log[i].success

TargetsGone ==
    \A i \in 1..Len(operations_log) : tree[operations_log[i].target] = Absent

\* C30: after any sequence of successful write_file, copy_file,
\* create_symlink and copy_directory calls, rollback_operations has removed
\* the target of every logged operation and has returned True.
C30_RollbackRemovesEveryTarget ==
    (returned.op = "rollback_operations" /\ AllSucceeded)
        => (returned.value /\ TargetsGone)

=============================================================================
